---- MODULE Spec2Model ----
(***************************************************************************)
(* Order validation pipeline of the forwarder bot.                         *)
(*                                                                         *)
(* One OrderProcessor run (forwarder/utils/order.py, process_order) is     *)
(* modelled as a state machine whose steps are the stretches of code       *)
(* between two awaits.  Texts on which the code works character by         *)
(* character (IBAN, bank names, country names, amounts) are sequences of   *)
(* one-character strings; report entries are strings.  The external        *)
(* services (bank-identifier lookup, screening service, database, sheets)  *)
(* answer nondeterministically.                                            *)
(***************************************************************************)
EXTENDS Integers, Sequences, FiniteSets, TLC

(***************************************************************************)
(* Text helpers                                                            *)
(***************************************************************************)

DigitChars == <<"0", "1", "2", "3", "4", "5", "6", "7", "8", "9">>

UpperLetters ==
    <<"A", "B", "C", "D", "E", "F", "G", "H", "I", "J", "K", "L", "M",
      "N", "O", "P", "Q", "R", "S", "T", "U", "V", "W", "X", "Y", "Z">>

LowerLetters ==
    <<"a", "b", "c", "d", "e", "f", "g", "h", "i", "j", "k", "l", "m",
      "n", "o", "p", "q", "r", "s", "t", "u", "v", "w", "x", "y", "z">>

\* string.punctuation (the backquote, which a TLA+ string cannot hold, left out)
Punctuation ==
    {"!", "\"", "#", "$", "%", "&", "'", "(", ")", "*", "+", ",", "-", ".",
     "/", ":", ";", "<", "=", ">", "?", "@", "[", "\\", "]", "^", "_",
     "{", "|", "}", "~"}

Whitespace == {" ", "\t", "\n", "\r"}

Range(s) == {s[i] : i \in DOMAIN s}

IsDigit(c) == c \in Range(DigitChars)

IsUpperLetter(c) == c \in Range(UpperLetters)

IsLowerLetter(c) == c \in Range(LowerLetters)

\* int(c) for a digit character
DigitValue(c) == (CHOOSE i \in DOMAIN DigitChars : DigitChars[i] = c) - 1

\* ord(c) - ord('A') for an upper-case letter
LetterIndex(c) == (CHOOSE i \in DOMAIN UpperLetters : UpperLetters[i] = c) - 1

\* str.upper() on one character
UpperChar(c) ==
    IF IsLowerLetter(c)
    THEN UpperLetters[CHOOSE i \in DOMAIN LowerLetters : LowerLetters[i] = c]
    ELSE c

\* str.upper()
Upper(s) == [i \in DOMAIN s |-> UpperChar(s[i])]

\* the text of a character sequence, as it appears inside an f-string
RECURSIVE StrOf(_)
StrOf(s) == IF s = <<>> THEN "" ELSE Head(s) \o StrOf(Tail(s))

\* needle in hay (Python substring test)
Contains(hay, needle) ==
    \E i \in 0..(Len(hay) - Len(needle)) :
        SubSeq(hay, i + 1, i + Len(needle)) = needle

\* str.split(): the maximal runs of non-whitespace characters
RECURSIVE SplitWords(_, _, _)
SplitWords(s, cur, acc) ==
    IF s = <<>>
    THEN IF cur = <<>> THEN acc ELSE Append(acc, cur)
    ELSE IF Head(s) \in Whitespace
         THEN SplitWords(Tail(s), <<>>, IF cur = <<>> THEN acc ELSE Append(acc, cur))
         ELSE SplitWords(Tail(s), Append(cur, Head(s)), acc)

\* ' '.join(words)
RECURSIVE JoinWords(_)
JoinWords(words) ==
    IF words = <<>> THEN <<>>
    ELSE IF Len(words) = 1 THEN words[1]
    ELSE words[1] \o <<" ">> \o JoinWords(Tail(words))

(***************************************************************************)
(* Optional values and the details dictionary                              *)
(***************************************************************************)

\* A dictionary slot: the key is missing, the value is None, or it is a text.
NoKey == [has |-> "nokey", s |-> <<>>]

None == [has |-> "none", s |-> <<>>]

Str(s) == [has |-> "str", s |-> s]

\* Python truthiness of an Optional[str]
Truthy(v) == v.has = "str" /\ v.s # <<>>

\* dict.get(key): a missing key reads as None
Get(d, f) == IF d[f].has = "nokey" THEN None ELSE d[f]

\* d[key] raises KeyError
HasKey(d, f) == d[f].has # "nokey"

\* a or b
OrElse(a, b) == IF Truthy(a) THEN a ELSE b

(***************************************************************************)
(* forwarder/utils/iban.py                                                 *)
(***************************************************************************)

IBAN_MANDATORY_COUNTRIES ==
    {
     "ALBANIA", "ANDORRA", "AUSTRIA", "AZERBAIJAN", "BAHRAIN", "BELGIUM",
     "BOSNIA AND HERZEGOVINA", "BULGARIA", "CROATIA", "CYPRUS",
     "CZECH REPUBLIC", "DENMARK", "ESTONIA", "FAROE ISLANDS", "FINLAND",
     "FRANCE", "GEORGIA", "GERMANY", "GIBRALTAR", "GREECE", "GREENLAND",
     "HUNGARY", "ICELAND", "IRELAND", "ISRAEL", "ITALY", "JORDAN",
     "KAZAKHSTAN", "KUWAIT", "LATVIA", "LEBANON", "LIECHTENSTEIN",
     "LITHUANIA", "LUXEMBOURG", "MALTA", "MAURITANIA", "MAURITIUS",
     "MONACO", "MONTENEGRO", "NETHERLANDS", "NORTH MACEDONIA", "NORWAY",
     "PAKISTAN", "PALESTINE", "POLAND", "PORTUGAL", "QATAR", "ROMANIA",
     "SAINT LUCIA", "SAN MARINO", "SAUDI ARABIA", "SERBIA", "SEYCHELLES",
     "SLOVAKIA", "SLOVENIA", "SPAIN", "SWEDEN", "SWITZERLAND",
     "TIMOR-LESTE", "TURKEY", "UKRAINE", "UNITED ARAB EMIRATES",
     "UNITED KINGDOM", "VATICAN CITY STATE"
    }

IBAN_LENGTHS ==
    [
     AL |-> 28, AD |-> 24, AT |-> 20, AZ |-> 28, BH |-> 22, BE |-> 16,
     BA |-> 20, BG |-> 22, HR |-> 21, CY |-> 28, CZ |-> 24, DK |-> 18,
     EE |-> 20, FO |-> 18, FI |-> 18, FR |-> 27, GE |-> 22, DE |-> 22,
     GI |-> 23, GR |-> 27, GL |-> 18, HU |-> 28, IS |-> 26, IE |-> 22,
     IL |-> 23, IT |-> 27, JO |-> 30, KZ |-> 20, KW |-> 30, LV |-> 21,
     LB |-> 28, LI |-> 21, LT |-> 20, LU |-> 20, MT |-> 31, MR |-> 27,
     MU |-> 30, MC |-> 27, ME |-> 22, NL |-> 18, MK |-> 19, NO |-> 15,
     PK |-> 24, PS |-> 29, PL |-> 28, PT |-> 25, QA |-> 29, RO |-> 24,
     LC |-> 32, SM |-> 27, SA |-> 24, RS |-> 22, SC |-> 31, SK |-> 24,
     SI |-> 19, ES |-> 24, SE |-> 24, CH |-> 21, TL |-> 23, TR |-> 26,
     UA |-> 29, AE |-> 23, GB |-> 22, VA |-> 22
    ]

\* a test of the country as it is written, without upper()
requires_iban_as_written(country) == StrOf(country) \in IBAN_MANDATORY_COUNTRIES

\* IBANValidator.requires_iban
requires_iban(country) == StrOf(Upper(country)) \in IBAN_MANDATORY_COUNTRIES

\* IBANValidator.clean_iban: ''.join(iban.split()).upper()
clean_iban(iban) == Upper(SelectSeq(iban, LAMBDA c : c \notin Whitespace))

\* re.match(r'^[A-Z]{2}[0-9A-Z]{2,}$', iban)
IbanShape(iban) ==
    /\ Len(iban) >= 4
    /\ IsUpperLetter(iban[1])
    /\ IsUpperLetter(iban[2])
    /\ \A i \in 3..Len(iban) : IsDigit(iban[i]) \/ IsUpperLetter(iban[i])

\* int(iban_numeric) % 97, where iban_numeric writes a digit as itself and a
\* letter as the two digits of ord(ch) - ord('A') + 10.  The remainder is
\* carried along character by character, which gives the remainder of the
\* whole number.
RECURSIVE Mod97(_, _)
Mod97(s, r) ==
    IF s = <<>> THEN r
    ELSE IF IsDigit(Head(s))
         THEN Mod97(Tail(s), (r * 10 + DigitValue(Head(s))) % 97)
         ELSE Mod97(Tail(s), (r * 100 + LetterIndex(Head(s)) + 10) % 97)

\* iban[4:] + iban[:4]
Rearranged(iban) == SubSeq(iban, 5, Len(iban)) \o SubSeq(iban, 1, 4)

\* a validator that stops after the length check
validate_iban_unchecked(raw) ==
    LET iban == clean_iban(raw)
    IN  IF /\ raw # <<>>
           /\ IbanShape(iban)
           /\ iban[1] \o iban[2] \in DOMAIN IBAN_LENGTHS
           /\ Len(iban) = IBAN_LENGTHS[iban[1] \o iban[2]]
        THEN <<TRUE, "IBAN is valid">>
        ELSE <<FALSE, "IBAN is invalid">>

\* IBANValidator.validate_iban: <<is_valid, message>>
validate_iban(raw) ==
    IF raw = <<>> THEN <<FALSE, "IBAN is empty">>
    ELSE LET iban == clean_iban(raw)
             country_code == iban[1] \o iban[2]
         IN  IF ~IbanShape(iban)
             THEN <<FALSE, "IBAN format is invalid (must start with country code)">>
             ELSE IF country_code \notin DOMAIN IBAN_LENGTHS
             THEN <<FALSE, "Unknown country code: " \o country_code>>
             ELSE IF Len(iban) # IBAN_LENGTHS[country_code]
             THEN <<FALSE, "IBAN length incorrect. Expected "
                            \o ToString(IBAN_LENGTHS[country_code])
                            \o " characters, got " \o ToString(Len(iban))>>
             ELSE IF Mod97(Rearranged(iban), 0) # 1
             THEN <<FALSE, "IBAN checksum is invalid">>
             ELSE <<TRUE, "IBAN is valid">>

(***************************************************************************)
(* forwarder/utils/number.py                                               *)
(***************************************************************************)

Count(s, c) == Cardinality({i \in DOMAIN s : s[i] = c})

Without(s, drop) == SelectSeq(s, LAMBDA c : c \notin drop)

Replace(s, old, new) == [i \in DOMAIN s |-> IF s[i] = old THEN new ELSE s[i]]

\* value.strip()
RECURSIVE LStrip(_)
LStrip(s) == IF s # <<>> /\ Head(s) \in Whitespace THEN LStrip(Tail(s)) ELSE s

RECURSIVE RStrip(_)
RStrip(s) ==
    IF s # <<>> /\ s[Len(s)] \in Whitespace
    THEN RStrip(SubSeq(s, 1, Len(s) - 1))
    ELSE s

Strip(s) == RStrip(LStrip(s))

\* the part after the single comma: value.split(',')[1]
AfterComma(s) ==
    LET i == CHOOSE k \in DOMAIN s : s[k] = ","
    IN  SubSeq(s, i + 1, Len(s))

\* the separators settled as parse_float settles them (lines 16-26)
SeparatorsSettled(v) ==
    IF "," \in Range(v) /\ "." \in Range(v)
    THEN Without(v, {","})
    ELSE IF "," \in Range(v)
         THEN IF Count(v, ",") = 1 /\ Len(AfterComma(v)) <= 2
              THEN Replace(v, ",", ".")
              ELSE Without(v, {","})
         ELSE v

\* float(value) accepts a text of digits and dots: at most one dot and at
\* least one digit (no sign, exponent or underscore occurs in an amount the
\* extractor has cleaned)
FloatAccepts(v) ==
    /\ v # <<>>
    /\ \A i \in DOMAIN v : IsDigit(v[i]) \/ v[i] = "."
    /\ Count(v, ".") <= 1
    /\ \E i \in DOMAIN v : IsDigit(v[i])

\* parse_float returns a number (TRUE) or raises ValueError (FALSE); of the
\* currency signs it removes only the dollar occurs in the model's texts
parse_float(value) ==
    IF ~Truthy(value) THEN FALSE
    ELSE FloatAccepts(
             SeparatorsSettled(Without(Strip(value.s), {"$", " "})))

(***************************************************************************)
(* forwarder/utils/swift.py                                                *)
(***************************************************************************)

company_designations == {<<"C", "O">>, <<"L", "T", "D">>, <<"C", "O", "L", "T", "D">>}

\* Swift.clean_text
clean_text(text) ==
    LET words == SplitWords(Upper(Without(text, Punctuation)), <<>>, <<>>)
    IN  JoinWords(SelectSeq(words, LAMBDA w : w \notin company_designations))

\* The answers of the lookup service: not status 200, success = false, an
\* answer that cannot be read (transport error, bad JSON, a missing key), or
\* the bank's name and country.
SwiftRejected(resp) == resp.kind \in {"non200", "unsuccessful"}

NamesDisagree(bank_name, swift_bank_name) ==
    /\ ~Contains(clean_text(bank_name), clean_text(swift_bank_name))
    /\ ~Contains(clean_text(swift_bank_name), clean_text(bank_name))

\* the request is sent only for a SWIFT code that is a text: clean_text raises
\* on None
SwiftAsked(d) == d["swift_code"].has = "str"

\* a variant that does not compare the bank names: C5 tells it from the code
verify_swift_and_iban_uncompared(swift_code, bank_name, resp) ==
    IF swift_code.has # "str" \/ resp.kind = "error"
    THEN [valid |-> FALSE, message |-> "SWIFT verification failed", country |-> None]
    ELSE IF SwiftRejected(resp)
    THEN [valid |-> FALSE, message |-> "Invalid SWIFT code: " \o StrOf(swift_code.s),
          country |-> None]
    ELSE [valid |-> TRUE, message |-> "Order Bank Name", country |-> resp.country]

\* Swift.verify_swift_and_iban: [valid, message, country]
verify_swift_and_iban(swift_code, bank_name, resp) ==
    IF swift_code.has # "str" \/ resp.kind = "error"
    THEN [valid |-> FALSE, message |-> "SWIFT verification failed", country |-> None]
    ELSE IF SwiftRejected(resp)
    THEN [valid |-> FALSE, message |-> "Invalid SWIFT code: " \o StrOf(swift_code.s),
          country |-> None]
    ELSE IF Truthy(bank_name) /\ NamesDisagree(bank_name.s, resp.name)
    THEN [valid |-> FALSE, message |-> "Bank name mismatch!", country |-> resp.country]
    ELSE [valid |-> TRUE, message |-> "Order Bank Name", country |-> resp.country]

(***************************************************************************)
(* forwarder/utils/sanctions_service.py                                    *)
(***************************************************************************)

\* a client that takes an answer it cannot use for a hit
check_entity_failing_closed(resp) ==
    IF resp.kind = "ok" THEN [total_hits |-> resp.total_hits, found_records |-> resp.found_records]
    ELSE [total_hits |-> 1, found_records |-> <<>>]

\* What check_entity returns for an answer of the screening service: the
\* answer's own total_hits and found_records when the status is 200, zero
\* hits for another status, and an empty dict when the call fails.
check_entity(resp) ==
    IF resp.kind = "ok" THEN [total_hits |-> resp.total_hits, found_records |-> resp.found_records]
    ELSE [total_hits |-> 0, found_records |-> <<>>]

\* SanctionsService.format_sanction_message
format_sanction_message(result) ==
    IF result.total_hits > 0 /\ result.found_records # <<>>
    THEN "SANCTIONS CHECK FAILED"
    ELSE "SANCTIONS CHECK PASSED"

\* the screening service is asked only about a beneficiary that has a name
SanctionsAsked(details) == Truthy(Get(details, "beneficiary_name"))

\* a variant that takes an order as sanctioned only when the answer also
\* lists a record, as format_sanction_message does: C9 tells it from the code
validate_entity_needs_record(details, resp) ==
    IF ~SanctionsAsked(details)
    THEN [is_valid |-> FALSE, status |-> "failed",
          message |-> "Sanctions Check: Missing beneficiary name"]
    ELSE IF resp.kind = "malformed"
    THEN [is_valid |-> FALSE, status |-> "error", message |-> "Sanctions Check Error"]
    ELSE LET result == check_entity(resp)
             is_sanctioned == result.total_hits > 0 /\ result.found_records # <<>>
         IN  [is_valid |-> ~is_sanctioned,
              status |-> IF is_sanctioned THEN "failed" ELSE "passed",
              message |-> format_sanction_message(result)]

\* SanctionsService.validate_entity: [is_valid, status, message]
validate_entity(details, resp) ==
    IF ~SanctionsAsked(details)
    THEN [is_valid |-> FALSE, status |-> "failed",
          message |-> "Sanctions Check: Missing beneficiary name"]
    ELSE IF resp.kind = "malformed"
    THEN [is_valid |-> FALSE, status |-> "error", message |-> "Sanctions Check Error"]
    ELSE LET result == check_entity(resp)
             is_sanctioned == result.total_hits > 0
         IN  [is_valid |-> ~is_sanctioned,
              status |-> IF is_sanctioned THEN "failed" ELSE "passed",
              message |-> format_sanction_message(result)]

(***************************************************************************)
(* forwarder/utils/message.py                                              *)
(***************************************************************************)

\* A message text is a sequence of lines and a line a sequence of tokens: a
\* label (the words one of the label patterns matches), a colon, or a word
\* of a value.  The patterns are searched without regard to case or to the
\* place in the line, so a label's words inside a value count as the label.
LblOrderRef == "Order Ref"

LblCurrency == "Currency"

LblAmount == "Amount"

LblPayOut == "Pay Out Company"

\* is_valid_order_format.required_fields: the label a pattern matches and the
\* name the error gives it, in the order of the list
format_required_fields ==
    << <<LblOrderRef, "Order Reference">>, <<LblCurrency, "Currency">>,
       <<LblAmount, "Amount">>, <<LblPayOut, "Pay Out Company">> >>

\* is_valid_order_format.field_labels
field_labels ==
    {LblOrderRef, LblCurrency, LblAmount, LblPayOut, "Purpose", "Remark",
     "Beneficiary Name", "Beneficiary country", "Beneficiary address",
     "Bank Account Number", "IBAN", "SWIFT", "Bank Name", "Bank address",
     "Bank country"}

\* re.search(pattern, message_text): the label occurs somewhere in the text
LabelOccurs(text, label) ==
    \E i \in DOMAIN text : \E j \in DOMAIN text[i] : text[i][j] = label

\* Optional[str] of the error message: None, or the text
NoError == [has |-> "none", text |-> ""]

Error(text) == [has |-> "str", text |-> text]

\* a recogniser that takes every message for an order
is_order_message_always(text) == TRUE

is_order_message(text) == LabelOccurs(text, LblOrderRef)

MsgMissingRequired(name) == "Invalid Order Format: Missing required field: " \o name

MsgLabelWithoutColon == "Invalid Order Format: Field label missing colon"

MsgContentWithoutLabel == "Invalid Order Format: Found content without a field label"

\* a loop that keeps the last missing entry instead of returning at the first
LastMissingRequired(text, i) ==
    LET missing == {k \in i..Len(format_required_fields) :
                        ~LabelOccurs(text, format_required_fields[k][1])}
    IN  IF missing = {} THEN 0
        ELSE CHOOSE k \in missing : \A other \in missing : other <= k

\* the first entry of required_fields, from index i on, whose label does not
\* occur in the text; 0 when there is none
RECURSIVE FirstMissingRequired(_, _)
FirstMissingRequired(text, i) ==
    IF i > Len(format_required_fields) THEN 0
    ELSE IF ~LabelOccurs(text, format_required_fields[i][1]) THEN i
    ELSE FirstMissingRequired(text, i + 1)

\* re.match(label, line): the line starts with a label
StartsField(line) == Head(line) \in field_labels

\* the loop over the lines (lines 72-101): the error of the first line at
\* fault, None when there is none; in_field says whether a label line came
\* before
RECURSIVE LinesError(_, _)
LinesError(lines, in_field) ==
    IF lines = <<>> THEN NoError
    ELSE LET line == Head(lines)
         IN  IF line = <<>> THEN LinesError(Tail(lines), in_field)
             ELSE IF StartsField(line)
             THEN IF ":" \notin Range(line)
                  THEN Error(MsgLabelWithoutColon)
                  ELSE LinesError(Tail(lines), TRUE)
             ELSE IF ~in_field
             THEN Error(MsgContentWithoutLabel)
             ELSE LinesError(Tail(lines), in_field)

\* is_valid_order_format: [is_valid, error_message]
is_valid_order_format(text) ==
    IF ~is_order_message(text) THEN [is_valid |-> FALSE, error_message |-> NoError]
    ELSE IF FirstMissingRequired(text, 1) # 0
    THEN [is_valid |-> FALSE,
          error_message |->
              Error(MsgMissingRequired(format_required_fields[FirstMissingRequired(text, 1)][2]))]
    ELSE IF LinesError(text, FALSE) # NoError
    THEN [is_valid |-> FALSE, error_message |-> LinesError(text, FALSE)]
    ELSE [is_valid |-> TRUE, error_message |-> NoError]

\* a process_order that goes on whatever the answer
FormatOf_accepting(text) == "ok"

\* what process_order makes of the answer at lines 91-100
FormatOf(text) ==
    LET answer == is_valid_order_format(text)
    IN  IF answer.is_valid THEN "ok"
        ELSE IF answer.error_message = NoError THEN "not_order"
        ELSE "bad_format"

\* value.strip('[]')
RECURSIVE StripBrackets(_)
StripBrackets(s) ==
    IF s # <<>> /\ Head(s) \in {"[", "]"} THEN StripBrackets(Tail(s))
    ELSE IF s # <<>> /\ s[Len(s)] \in {"[", "]"}
    THEN StripBrackets(SubSeq(s, 1, Len(s) - 1))
    ELSE s

Separators == {",", "."}

\* the place of the last comma or dot of a text that has one
LastSeparator(v) ==
    CHOOSE k \in DOMAIN v :
        /\ v[k] \in Separators
        /\ \A j \in DOMAIN v : v[j] \in Separators => j <= k

\* with parts = value.replace(',', '.').split('.'):
\* ''.join(parts[:-1]).replace('.', '') + '.' + parts[-1]
LastPartAfterDot(v) ==
    Without(SubSeq(v, 1, LastSeparator(v) - 1), Separators)
        \o <<".">> \o SubSeq(v, LastSeparator(v) + 1, Len(v))

\* c.isalnum() on the characters of the model's texts
IsAlnum(c) == IsDigit(c) \/ IsUpperLetter(c) \/ IsLowerLetter(c)

\* clean_field_value (lines 105-148); both branches of the test on the last
\* part's length build the same text (lines 135-138)
clean_field_value(field, value) ==
    IF value = <<>> THEN value
    ELSE LET stripped == Strip(StripBrackets(value))
         IN  IF field = "amount"
             THEN LET kept == SelectSeq(stripped,
                                        LAMBDA c : IsDigit(c) \/ c \in Separators)
                  IN  IF "," \in Range(kept) /\ "." \notin Range(kept)
                      THEN Replace(kept, ",", ".")
                      ELSE IF "," \in Range(kept) /\ "." \in Range(kept)
                      THEN IF Len(kept) - LastSeparator(kept) = 2
                           THEN LastPartAfterDot(kept)
                           ELSE LastPartAfterDot(kept)
                      ELSE kept
             ELSE IF field \in {"iban", "account_number", "swift_code"}
             THEN LET kept == SelectSeq(stripped, IsAlnum)
                  IN  IF field = "account_number" THEN kept ELSE Upper(kept)
             ELSE stripped

(***************************************************************************)
(* forwarder/utils/order.py: the entries and the reports                   *)
(***************************************************************************)

MsgAccountInfo == "Account Information: Either IBAN or Account Number is required"

MsgMissing(label) == label \o ": Missing"

MsgSwiftValid == "SWIFT Verification: Valid"

MsgSwiftWarning(swift_message) == "SWIFT Verification Warning: " \o swift_message

MsgIbanRequired(country) ==
    "IBAN Required: Country " \o StrOf(country.s) \o " requires IBAN"

MsgIbanValid == "IBAN Verification: Valid"

MsgIbanInvalid(iban_message) == "IBAN Verification: " \o iban_message

MsgDbSaved == "Database: Order saved successfully"

MsgDbFailed == "Database: Failed to save order"

MsgSheetSaved == "Database: Order details saved"

MsgSheetNotSaved == "Database: Failed to save order details"

MsgSheetProcessing == "Sheet Processing: error"

HdrValidationFailed == "VALIDATION CHECKS FAILED"

HdrFailed(n) == "Failed Checks (" \o ToString(n) \o "):"

HdrWarnings(n) == "Warnings(" \o ToString(n) \o "):"

HdrPassed(n) == "Passed Checks (" \o ToString(n) \o "):"

HdrSuccess == "ALL VALIDATIONS PASSED"

\* a variant that lists the passed checks before the warnings: C10 tells it
\* from the code
format_validation_message_passed_first(f, w, p) ==
    <<HdrValidationFailed>>
    \o (IF f # <<>> THEN <<HdrFailed(Len(f))>> \o f ELSE <<>>)
    \o (IF p # <<>> THEN <<HdrPassed(Len(p))>> \o p ELSE <<>>)
    \o (IF w # <<>> THEN <<HdrWarnings(Len(w))>> \o w ELSE <<>>)

\* OrderProcessor._format_validation_message: the lines of the report
format_validation_message(f, w, p) ==
    <<HdrValidationFailed>>
    \o (IF f # <<>> THEN <<HdrFailed(Len(f))>> \o f ELSE <<>>)
    \o (IF w # <<>> THEN <<HdrWarnings(Len(w))>> \o w ELSE <<>>)
    \o (IF p # <<>> THEN <<HdrPassed(Len(p))>> \o p ELSE <<>>)

\* a success report without the order's amount
format_success_message_without_amount(d, w, p) ==
    <<HdrSuccess,
      "Reference: " \o StrOf(d["order_ref"].s),
      "Beneficiary Name: " \o StrOf(d["beneficiary_name"].s),
      "Validation Summary:">>
    \o p
    \o (IF w # <<>> THEN <<"Warnings:">> \o w ELSE <<>>)

\* OrderProcessor._format_success_message: the lines of the report
format_success_message(d, w, p) ==
    <<HdrSuccess,
      "Reference: " \o StrOf(d["order_ref"].s),
      "Amount: " \o StrOf(d["amount"].s) \o " " \o StrOf(d["currency"].s),
      "Beneficiary Name: " \o StrOf(d["beneficiary_name"].s),
      "Validation Summary:">>
    \o p
    \o (IF w # <<>> THEN <<"Warnings:">> \o w ELSE <<>>)

(***************************************************************************)
(* forwarder/utils/order.py: the checks of OrderProcessor                  *)
(***************************************************************************)

\* dict.get(key, default) on the validation rules
RuleGet(rules, key, default) == IF key \in DOMAIN rules THEN rules[key] ELSE default

\* __init__: validation_rules or the default rules
DefaultRules ==
    [k \in {"check_swift", "check_iban", "check_sanctions"} |-> k # "check_sanctions"]

EffectiveRules(rules) == IF DOMAIN rules = {} THEN DefaultRules ELSE rules

\* __init__: a SanctionsService is built only with check_sanctions and a config
HasSanctionsService(rules, sanctions_config) ==
    RuleGet(EffectiveRules(rules), "check_sanctions", FALSE) /\ sanctions_config

\* message_handler hands the sanctions config over only with check_sanctions
HandlerSanctionsConfig(rules, configured) ==
    RuleGet(rules, "check_sanctions", FALSE) /\ configured

\* _validate_required_fields: the label and the key of each mandatory field,
\* in the order of the dict
required_fields ==
    << <<"SWIFT Code", "swift_code">>, <<"Bank Name", "bank_name">>,
       <<"Order Reference", "order_ref">>, <<"Currency", "currency">>,
       <<"Amount", "amount">>, <<"Beneficiary Name", "beneficiary_name">> >>

RequiredKeys == {required_fields[i][2] : i \in DOMAIN required_fields}

\* building the dict reads details[key] for each key: KeyError on a missing one
RequiredFieldsRaise(d) == \E k \in RequiredKeys : ~HasKey(d, k)

\* a variant that wants exactly one of the two: C8 tells it from the code
has_account_info_exactly_one(d) ==
    Truthy(Get(d, "iban")) # Truthy(Get(d, "account_number"))

has_account_info(d) == Truthy(Get(d, "iban")) \/ Truthy(Get(d, "account_number"))

RECURSIVE MissingEntries(_, _)
MissingEntries(d, fields) ==
    IF fields = <<>> THEN <<>>
    ELSE (IF ~Truthy(d[Head(fields)[2]]) THEN <<MsgMissing(Head(fields)[1])>> ELSE <<>>)
         \o MissingEntries(d, Tail(fields))

\* the entries _validate_required_fields appends to failed
RequiredFieldEntries(d) ==
    (IF ~has_account_info(d) THEN <<MsgAccountInfo>> ELSE <<>>)
    \o MissingEntries(d, required_fields)

\* a variant of the returned value that forgets the account information: C1
\* tells it from the code
validate_required_fields_fields_only(d) ==
    \A i \in DOMAIN required_fields : Truthy(d[required_fields[i][2]])

\* the value _validate_required_fields returns
validate_required_fields(d) ==
    /\ \A i \in DOMAIN required_fields : Truthy(d[required_fields[i][2]])
    /\ has_account_info(d)

\* a variant of the gate that reads check_swift alone: C6 tells it from the
\* code
BankDetailsEnabled_swift_only(rules) == RuleGet(rules, "check_swift", TRUE)

\* process_order line 113: whether _validate_bank_details is run at all
BankDetailsEnabled(rules) ==
    RuleGet(rules, "check_swift", TRUE) \/ RuleGet(rules, "require_iban", TRUE)

\* how _validate_bank_details records the answer of the SWIFT verification
SwiftPassed(swift) == IF swift.valid THEN <<MsgSwiftValid>> ELSE <<>>

\* a variant that leaves a failed verification unrecorded: C4 tells it from
\* the code
SwiftWarnings_unrecorded(swift) == <<>>

SwiftWarnings(swift) == IF swift.valid THEN <<>> ELSE <<MsgSwiftWarning(swift.message)>>

\* _validate_bank_details: what it appends, the country it stores and the
\* value it returns
validate_bank_details(d, rules, resp) ==
    LET iban == Get(d, "iban")
        account_number == Get(d, "account_number")
        swift == verify_swift_and_iban(d["swift_code"], d["bank_name"], resp)
        effective_country == OrElse(swift.country, Get(d, "bank_country"))
        needs_iban_validation ==
            \/ iban.has = "str"
            \/ /\ RuleGet(rules, "check_iban", FALSE)
               /\ Truthy(effective_country)
               /\ requires_iban(effective_country.s)
        iban_result == validate_iban(iban.s)
        base == [passed |-> SwiftPassed(swift), warnings |-> SwiftWarnings(swift),
                 failed |-> <<>>, bank_country |-> swift.country,
                 ok |-> TRUE]
    IN  IF ~needs_iban_validation THEN base
        ELSE IF ~Truthy(iban)
        THEN [base EXCEPT !.failed = @ \o <<MsgIbanRequired(effective_country)>>,
                          !.ok = FALSE]
        ELSE IF iban_result[1]
        THEN [base EXCEPT !.passed = @ \o <<MsgIbanValid>>]
        ELSE [base EXCEPT !.failed = @ \o <<MsgIbanInvalid(iban_result[2])>>,
                          !.ok = FALSE]

\* OrderRepository.create_order raises before it reaches the session:
\* KeyError on details['account_number'] or details['iban'], ValueError from
\* parse_float
CreateOrderRaises(d) ==
    \/ ~HasKey(d, "account_number")
    \/ (~Truthy(d["account_number"]) /\ ~HasKey(d, "iban"))
    \/ ~parse_float(d["amount"])

\* the row create_order stores
OrderRow(d, validation_messages) ==
    [order_ref |-> d["order_ref"].s,
     account_number |-> OrElse(d["account_number"], d["iban"]).s,
     validation_messages |-> validation_messages]

\* _process_sheets line 258: details.get('payout_company', '').upper() raises
\* AttributeError on None; a missing key reads as ''
PayoutUpperRaises(d) == d["payout_company"].has = "none"

PayoutUpper(d) == Upper(d["payout_company"].s)

\* _update_hd_pay_sheet: the payout companies that have a sheet
HasHdPaySheet(d) ==
    \/ Contains(PayoutUpper(d), <<"C", "E", "L", "E", "S">>)
    \/ Contains(PayoutUpper(d), <<"E", "U", "R">>)
    \/ Contains(PayoutUpper(d), <<"S", "E", "N", "I", "B", "O">>)

(***************************************************************************)
(* The inputs: the message, the configuration, the services' answers       *)
(***************************************************************************)

\* the most hits in one answer of the screening service
MaxHits == 1

\* the most points in which one run departs from the regular order below
MaxDeviations == 2

ValidIban == <<"N", "O", "9", "3", "8", "6", "0", "1", "1", "1", "1", "7", "9", "4", "7">>

\* ValidIban with its last digit replaced
FlippedIban == <<"N", "O", "9", "3", "8", "6", "0", "1", "1", "1", "1", "7", "9", "4", "8">>

ClaimedBankName == <<"D", "N", "B", " ", "B", "a", "n", "k">>

\* a name of the lookup service that clean_text reduces to DNB
MatchingBankName == <<"D", "N", "B", " ", "C", "o", ".", ",", " ", "L", "t", "d">>

OtherBankName == <<"N", "o", "r", "d", "e", "a">>

IbanCountry == <<"N", "o", "r", "w", "a", "y">>

NoIbanCountry == <<"J", "a", "p", "a", "n">>

GoodAmount == <<"1", "2", "3", "4", ".", "5", "6">>

\* an amount the extractor leaves as it is and float() rejects
BadAmount == <<"1", ".", "2", ".", "3">>

FieldNames ==
    {"order_ref", "currency", "amount", "payout_company", "purpose", "remark",
     "beneficiary_name", "beneficiary_country", "beneficiary_address",
     "account_number", "iban", "swift_code", "bank_name", "bank_address",
     "bank_country"}

\* the fields process_order reads
ReadFields ==
    {"order_ref", "currency", "amount", "payout_company", "beneficiary_name",
     "account_number", "iban", "swift_code", "bank_name", "bank_country"}

\* the line of a label with a value
LabelLine(label) == <<label, ":", "x">>

\* the lines of the mandatory labels that are present, in the usual order
LabelLines(present) ==
    LET all == [i \in DOMAIN format_required_fields |-> format_required_fields[i][1]]
        kept == SelectSeq(all, LAMBDA l : l \in present)
    IN  [i \in DOMAIN kept |-> LabelLine(kept[i])]

MandatoryLabels == {format_required_fields[i][1] : i \in DOMAIN format_required_fields}

RegularText == LabelLines(MandatoryLabels)

\* the texts made of the given lines: as they are, with a word or a blank
\* line before the first label, with a further line of the last value, with
\* a label that lacks its colon, with a mandatory label's words inside the
\* value of a remark
Variants(lines) ==
    {lines, << <<"x">> >> \o lines, << <<>> >> \o lines, lines \o << <<"x">> >>}
    \cup {[lines EXCEPT ![k] = <<lines[k][1], "x">>] : k \in DOMAIN lines}
    \cup {lines \o << <<"Remark", ":", l>> >> : l \in MandatoryLabels}

Texts == UNION {Variants(LabelLines(present)) : present \in SUBSET MandatoryLabels} \ {<<>>}

\* A run's input: the text, the fields the extractor draws from it, the
\* topic's validation rules, whether the sanctions service is configured and
\* the output settings.  Regular is a complete order under the default rules.
Regular ==
    [text |-> RegularText,
     order_ref |-> Str(<<"A", "1">>),
     currency |-> Str(<<"U", "S", "D">>),
     amount |-> Str(GoodAmount),
     payout_company |-> Str(<<"C", "e", "l", "e", "s">>),
     beneficiary_name |-> Str(<<"A", "c", "m", "e">>),
     account_number |-> None,
     iban |-> Str(ValidIban),
     swift_code |-> Str(<<"D", "N", "B", "A", "N", "O", "K", "K">>),
     bank_name |-> Str(ClaimedBankName),
     bank_country |-> None,
     rules_given |-> TRUE,
     check_swift |-> TRUE,
     check_iban |-> TRUE,
     check_sanctions |-> FALSE,
     require_iban |-> "absent",
     sanctions_configured |-> TRUE,
     enable_verification_messages |-> TRUE]

\* What each point of the input can be.  A field is a cleaned text, None (its
\* label does not occur) or left out of the map (its label occurs with a value
\* that is empty once cleaned).
Choices(point) ==
    CASE point = "text" ->
             {RegularText, LabelLines({LblCurrency, LblAmount, LblPayOut}),
              LabelLines({LblOrderRef, LblCurrency, LblPayOut})}
      [] point = "amount" -> {None, NoKey, Str(GoodAmount), Str(BadAmount)}
      [] point = "iban" -> {None, NoKey, Str(ValidIban), Str(FlippedIban)}
      [] point = "account_number" -> {None, NoKey, Str(<<"1", "2", "3">>)}
      [] point = "bank_country" -> {None, Str(IbanCountry), Str(NoIbanCountry)}
      [] point \in ReadFields \ {"amount", "iban", "account_number", "bank_country"} ->
             {None, NoKey, Regular[point]}
      [] point = "require_iban" -> {"absent", "false"}
      [] OTHER -> BOOLEAN

RECURSIVE Deviating(_)
Deviating(n) ==
    IF n = 0 THEN {Regular}
    ELSE LET near == Deviating(n - 1)
         IN  near \cup UNION {{[i EXCEPT ![point] = c] : c \in Choices(point)} :
                              i \in near, point \in DOMAIN Regular}

\* Regular with any set of the mandatory fields absent
MandatoryAbsent ==
    {[k \in DOMAIN Regular |-> IF k \in absent THEN None ELSE Regular[k]] :
         absent \in SUBSET RequiredKeys}

\* Regular under a configuration that turns both keys of the bank-details gate
\* off, with every IBAN, account number and claimed bank country
BankGateOff ==
    {[Regular EXCEPT !.check_swift = FALSE, !.require_iban = "false",
                     !.check_iban = c, !.iban = v, !.account_number = a,
                     !.bank_country = b] :
         c \in BOOLEAN, v \in Choices("iban"), a \in Choices("account_number"),
         b \in Choices("bank_country")}

\* Regular with every text of Texts
TextInputs == {[Regular EXCEPT !.text = t] : t \in Texts}

Inputs == Deviating(MaxDeviations) \cup MandatoryAbsent \cup BankGateOff \cup TextInputs

\* extract_message_details on the input's text
FieldMapOf(i) == [k \in FieldNames |-> IF k \in ReadFields THEN i[k] ELSE None]

EmptyFieldMap == [k \in FieldNames |-> None]

\* the topic's validation_rules dict
RulesOf(i) ==
    IF ~i.rules_given THEN <<>>
    ELSE [k \in {"check_swift", "check_iban", "check_sanctions"}
               \cup (IF i.require_iban = "absent" THEN {} ELSE {"require_iban"}) |->
             IF k = "require_iban" THEN FALSE ELSE i[k]]

SwiftResponses ==
    {[kind |-> k, name |-> <<>>, country |-> None] : k \in {"non200", "unsuccessful", "error"}}
    \cup {[kind |-> "ok", name |-> n, country |-> Str(c)] :
              n \in {MatchingBankName, OtherBankName}, c \in {IbanCountry, NoIbanCountry}}

SanctionsResponses ==
    {[kind |-> k, total_hits |-> 0, found_records |-> <<>>] :
         k \in {"non200", "error", "malformed"}}
    \cup {[kind |-> "ok", total_hits |-> h, found_records |-> r] :
              h \in 0..MaxHits, r \in {<<>>, <<"Acme Holding">>}}

(***************************************************************************)
(* The state                                                               *)
(***************************************************************************)

VARIABLES
    message,            \* the inbound message (update.effective_message)
    validation_rules,   \* OrderProcessor.validation_rules
    sanctions_service,  \* whether OrderProcessor.sanctions_service is not None
    enable_verification_messages,   \* OUTPUT_SETTINGS.enable_verification_messages
    pc,                 \* where process_order stands
    details,            \* the extracted field map
    validation_passed,  \* the local of process_order
    passed,             \* validation_results.passed
    failed,             \* validation_results.failed
    warnings,           \* validation_results.warnings
    bank_country,       \* validation_results.bank_country
    swift_answer,       \* the answer the lookup service gave, if it was asked
    sanctions_answer,   \* the answer the screening service gave, if it was asked
    create_calls,       \* the calls of OrderRepository.create_order so far
    orders,             \* the rows committed to the orders table
    sheet_writes,       \* the spreadsheet writes carried out
    sent,               \* the texts delivered to the verification chat
    returned,           \* what process_order returned
    call,               \* a function applied on its own: argument and result
    processors,         \* the OrderProcessors of messages handled at the same time
    database            \* DatabaseManager._instance and the callers of initialize

vars ==
    <<message, validation_rules, sanctions_service, enable_verification_messages,
      pc, details, validation_passed, passed, failed, warnings, bank_country,
      swift_answer, sanctions_answer, create_calls, orders, sheet_writes, sent,
      returned, call, processors, database>>

config == <<message, validation_rules, sanctions_service, enable_verification_messages>>

results == <<passed, failed, warnings, bank_country>>

answers == <<swift_answer, sanctions_answer>>

effects == <<create_calls, orders, sheet_writes>>

\* what a single run of process_order leaves alone
elsewhere == <<call, processors, database>>

\* no answer yet: the service has not been asked
Unasked == [kind |-> "unasked"]

\* no function is applied on its own
NoCall ==
    [fn |-> "none", arg |-> <<>>, state |-> "none", out |-> <<>>,
     valid |-> FALSE, message |-> "", replaced |-> FALSE]

\* no OrderProcessor beside the one of the run
NoProcessors == <<>>

\* DatabaseManager._instance is None and nobody calls initialize
NoDatabase == [instance |-> 0, made |-> 0, tested |-> {}, callers |-> <<>>]

\* message_handler builds one OrderProcessor for the message; process_order
\* has not started
InitFrom(inputs) ==
    /\ \E i \in inputs :
          /\ message = [text |-> i.text,
                        format |-> FormatOf(i.text),
                        fields |-> IF FormatOf(i.text) = "ok" THEN FieldMapOf(i)
                                   ELSE EmptyFieldMap]
          /\ validation_rules = EffectiveRules(RulesOf(i))
          /\ sanctions_service =
                 HasSanctionsService(RulesOf(i),
                     HandlerSanctionsConfig(RulesOf(i), i.sanctions_configured))
          /\ enable_verification_messages = i.enable_verification_messages
    /\ pc = "start"
    /\ details = EmptyFieldMap
    /\ validation_passed = TRUE
    /\ passed = <<>>
    /\ failed = <<>>
    /\ warnings = <<>>
    /\ bank_country = None
    /\ swift_answer = Unasked
    /\ sanctions_answer = Unasked
    /\ create_calls = 0
    /\ orders = <<>>
    /\ sheet_writes = {}
    /\ sent = <<>>
    /\ returned = "nothing"
    /\ call = NoCall
    /\ processors = NoProcessors
    /\ database = NoDatabase

Init == InitFrom(Inputs)

(***************************************************************************)
(* Sending                                                                 *)
(***************************************************************************)

Report(kind, lines) == [kind |-> kind, lines |-> lines]

\* _send_message: nothing is sent with verification messages disabled, and a
\* send that fails is logged and dropped
SendMessage(report, delivered) ==
    sent' = IF enable_verification_messages /\ delivered
            THEN Append(sent, report)
            ELSE sent

(***************************************************************************)
(* process_order                                                           *)
(***************************************************************************)

\* lines 82-100, a message that is_valid_order_format rejects: the format
\* error, if there is one, is sent with verification messages enabled; a send
\* that fails raises
RejectFormat ==
    /\ pc = "start"
    /\ message.format # "ok"
    /\ \E delivered \in BOOLEAN :
          IF message.format = "bad_format" /\ enable_verification_messages
          THEN IF delivered
               THEN /\ sent' = Append(sent,
                                Report("format_error",
                                       <<is_valid_order_format(message.text).error_message.text>>))
                    /\ pc' = "done"
                    /\ returned' = "False"
               ELSE /\ pc' = "raised"
                    /\ UNCHANGED <<sent, returned>>
          ELSE /\ pc' = "done"
               /\ returned' = "False"
               /\ UNCHANGED sent
    /\ UNCHANGED <<elsewhere, config, details, validation_passed, results, answers, effects>>

\* a first step that already appends the order's row to the internal sheet
CheckRequiredFields_with_sheet_row ==
    /\ pc = "start"
    /\ message.format = "ok"
    /\ details' = message.fields
    /\ sheet_writes' = sheet_writes \cup {"internal:Orders"}
    /\ IF RequiredFieldsRaise(message.fields)
       THEN /\ pc' = "raised"
            /\ UNCHANGED <<failed, validation_passed>>
       ELSE /\ pc' = "bank"
            /\ failed' = failed \o RequiredFieldEntries(message.fields)
            /\ validation_passed' = validate_required_fields(message.fields)
    /\ UNCHANGED <<elsewhere, config, passed, warnings, bank_country, answers, create_calls,
                   orders, sent, returned>>

\* lines 102-110: extraction and _validate_required_fields, which raises
\* KeyError on a field map that lacks a mandatory key
CheckRequiredFields ==
    /\ pc = "start"
    /\ message.format = "ok"
    /\ details' = message.fields
    /\ IF RequiredFieldsRaise(message.fields)
       THEN /\ pc' = "raised"
            /\ UNCHANGED <<failed, validation_passed>>
       ELSE /\ pc' = "bank"
            /\ failed' = failed \o RequiredFieldEntries(message.fields)
            /\ validation_passed' = validate_required_fields(message.fields)
    /\ UNCHANGED <<elsewhere, config, passed, warnings, bank_country, answers, effects, sent, returned>>

\* lines 112-115: _validate_bank_details, for some answer of the lookup service
CheckBankDetails ==
    /\ pc = "bank"
    /\ pc' = "sanctions"
    /\ IF BankDetailsEnabled(validation_rules)
       THEN \E resp \in SwiftResponses :
               LET r == validate_bank_details(details, validation_rules, resp)
               IN  /\ swift_answer' = IF SwiftAsked(details) THEN resp ELSE Unasked
                   /\ passed' = passed \o r.passed
                   /\ warnings' = warnings \o r.warnings
                   /\ failed' = failed \o r.failed
                   /\ bank_country' = r.bank_country
                   /\ validation_passed' = (validation_passed /\ r.ok)
       ELSE UNCHANGED <<validation_passed, results, swift_answer>>
    /\ UNCHANGED <<elsewhere, config, details, sanctions_answer, effects, sent, returned>>

\* lines 117-125: the sanctions check, for some answer of the screening
\* service; without a SanctionsService the call raises AttributeError
CheckSanctions ==
    /\ pc = "sanctions"
    /\ IF ~RuleGet(validation_rules, "check_sanctions", FALSE)
       THEN /\ pc' = "decide"
            /\ UNCHANGED <<validation_passed, passed, failed, sanctions_answer>>
       ELSE IF ~sanctions_service
       THEN /\ pc' = "raised"
            /\ UNCHANGED <<validation_passed, passed, failed, sanctions_answer>>
       ELSE \E resp \in SanctionsResponses :
               LET sanctions_result == validate_entity(details, resp)
               IN  /\ pc' = "decide"
                   /\ sanctions_answer' = IF SanctionsAsked(details) THEN resp ELSE Unasked
                   /\ IF sanctions_result.is_valid
                      THEN /\ passed' = Append(passed, sanctions_result.message)
                           /\ UNCHANGED <<failed, validation_passed>>
                      ELSE /\ failed' = Append(failed, sanctions_result.message)
                           /\ validation_passed' = FALSE
                           /\ UNCHANGED passed
    /\ UNCHANGED <<elsewhere, config, details, warnings, bank_country, swift_answer, effects, sent,
                   returned>>

\* lines 127-130: a validation failed; the report is sent and False returned
RejectOrder ==
    /\ pc = "decide"
    /\ ~validation_passed
    /\ \E delivered \in BOOLEAN :
          SendMessage(Report("validation",
                             format_validation_message(failed, warnings, passed)),
                      delivered)
    /\ pc' = "done"
    /\ returned' = "False"
    /\ UNCHANGED <<elsewhere, config, details, validation_passed, results, answers, effects>>

\* lines 132-142: create_order, which commits the row or raises (an error of
\* the database, the commit's timeout, or an error of its own)
PersistOrder ==
    /\ pc = "decide"
    /\ validation_passed
    /\ pc' = "sheets"
    /\ create_calls' = create_calls + 1
    /\ \E commit \in {"ok", "SQLAlchemyError", "TimeoutError"} :
          IF commit = "ok" /\ ~CreateOrderRaises(details)
          THEN /\ orders' = Append(orders,
                       OrderRow(details, format_validation_message(failed, warnings, passed)))
               /\ passed' = Append(passed, MsgDbSaved)
               /\ UNCHANGED <<warnings, validation_passed>>
          ELSE /\ warnings' = Append(warnings, MsgDbFailed)
               /\ validation_passed' = FALSE
               /\ UNCHANGED <<orders, passed>>
    /\ UNCHANGED <<elsewhere, config, details, failed, bank_country, answers, sheet_writes, sent,
                   returned>>

\* lines 144-145, _process_sheets: the row appended to the internal sheet (or
\* not), the cells of the VR sheet updated when the order's row is found
\* there, the row of the HD Pay sheet.  It returns False when it raises: on a
\* payout company that is None, or when the sheets client cannot authenticate.
ProcessSheets ==
    /\ pc = "sheets"
    /\ \/ /\ PayoutUpperRaises(details)
          /\ warnings' = Append(warnings, MsgSheetProcessing)
          /\ pc' = "report_failure"
          /\ UNCHANGED <<passed, sheet_writes>>
       \/ /\ ~PayoutUpperRaises(details)
          /\ warnings' = Append(warnings, MsgSheetProcessing)
          /\ pc' = "report_failure"
          /\ UNCHANGED <<passed, sheet_writes>>
       \/ /\ ~PayoutUpperRaises(details)
          /\ pc' = "report_success"
          /\ \E appended \in BOOLEAN, vr_row_found \in BOOLEAN, hd_pay_written \in BOOLEAN :
                /\ hd_pay_written => HasHdPaySheet(details)
                /\ IF appended
                   THEN /\ passed' = Append(passed, MsgSheetSaved)
                        /\ UNCHANGED warnings
                   ELSE /\ warnings' = Append(warnings, MsgSheetNotSaved)
                        /\ UNCHANGED passed
                /\ sheet_writes' =
                       sheet_writes
                       \cup (IF appended THEN {"internal:Orders"} ELSE {})
                       \cup (IF vr_row_found THEN {"hd_vr:D", "hd_vr:E", "hd_vr:I"} ELSE {})
                       \cup (IF hd_pay_written THEN {"hd_pay:row"} ELSE {})
    /\ UNCHANGED <<elsewhere, config, details, validation_passed, failed, bank_country, answers,
                   create_calls, orders, sent, returned>>

\* lines 145-147: _process_sheets returned False
ReportSheetFailure ==
    /\ pc = "report_failure"
    /\ \E delivered \in BOOLEAN :
          SendMessage(Report("validation",
                             format_validation_message(failed, warnings, passed)),
                      delivered)
    /\ pc' = "done"
    /\ returned' = "False"
    /\ UNCHANGED <<elsewhere, config, details, validation_passed, results, answers, effects>>

\* lines 149-150: the success report
ReportSuccess ==
    /\ pc = "report_success"
    /\ \E delivered \in BOOLEAN :
          SendMessage(Report("success", format_success_message(details, warnings, passed)),
                      delivered)
    /\ pc' = "done"
    /\ returned' = "True"
    /\ UNCHANGED <<elsewhere, config, details, validation_passed, results, answers, effects>>

(***************************************************************************)
(* forwarder/modules/message_handler.py                                    *)
(***************************************************************************)

\* context.bot.send_message in an except clause of message_handler: the
\* notice goes out whatever the output settings, and a send that fails raises
\* out of the clause
HandlerNotice(kind, text, delivered, then) ==
    IF delivered
    THEN /\ sent' = Append(sent, Report(kind, <<text>>))
         /\ pc' = "done"
    ELSE /\ pc' = then
         /\ UNCHANGED sent

\* lines 93-100: an exception of process_order is caught and an error notice
\* sent
HandleError ==
    /\ pc = "raised"
    /\ \E delivered \in BOOLEAN :
          HandlerNotice("handler_error", "Error processing order. Please check.",
                        delivered, "handler_raised")
    /\ UNCHANGED <<elsewhere, config, details, validation_passed, results, answers, effects, returned>>

\* lines 101-108: an exception raised inside the inner try statement, a
\* notice that could not be sent included, is caught by the outer clause; if
\* its own notice cannot be sent the exception leaves message_handler
HandleOuterError ==
    /\ pc = "handler_raised"
    /\ \E delivered \in BOOLEAN :
          HandlerNotice("handler_failure", "An error occurred. Please check.",
                        delivered, "propagated")
    /\ UNCHANGED <<elsewhere, config, details, validation_passed, results, answers, effects, returned>>

\* process_order is suspended at an await
Suspended ==
    pc \notin {"idle", "done", "raised", "timed_out", "handler_raised", "propagated"}

\* line 85: the 60 seconds of asyncio.timeout run out while process_order is
\* suspended; the task is cancelled there and TimeoutError raised in the
\* handler
TimeOut ==
    /\ Suspended
    /\ pc' = "timed_out"
    /\ UNCHANGED <<elsewhere, config, details, validation_passed, results, answers, effects, sent,
                   returned>>

\* a handler that reports a timeout through the output settings
HandleTimeout_if_enabled ==
    /\ pc = "timed_out"
    /\ \E delivered \in BOOLEAN :
          SendMessage(Report("handler_timeout",
                             <<"Order processing timed out. Please check.">>),
                      delivered)
    /\ pc' = "done"
    /\ UNCHANGED <<elsewhere, config, details, validation_passed, results, answers, effects, returned>>

\* lines 85-92: the timeout is caught and the timeout notice sent
HandleTimeout ==
    /\ pc = "timed_out"
    /\ \E delivered \in BOOLEAN :
          HandlerNotice("handler_timeout", "Order processing timed out. Please check.",
                        delivered, "handler_raised")
    /\ UNCHANGED <<elsewhere, config, details, validation_passed, results, answers, effects, returned>>

Next ==
    \/ RejectFormat
    \/ CheckRequiredFields
    \/ CheckBankDetails
    \/ CheckSanctions
    \/ RejectOrder
    \/ PersistOrder
    \/ ProcessSheets
    \/ ReportSheetFailure
    \/ ReportSuccess
    \/ HandleError
    \/ HandleOuterError

Spec == Init /\ [][Next]_vars

\* message_handler with the limit of 60 seconds on process_order
HandlerNext ==
    \/ Next
    \/ TimeOut
    \/ HandleTimeout

\* the inputs of the runs under the limit: the regular order, the orders one
\* point away from it, and the texts
HandlerInputs == Deviating(1) \cup TextInputs

HandlerInit == InitFrom(HandlerInputs)

\* The handler goes on while there is a step to take: the event loop runs the
\* task, and every await of the run ends, is answered or is cancelled when
\* the limit runs out.
HandlerSpec == HandlerInit /\ [][HandlerNext]_vars /\ WF_vars(HandlerNext)

(***************************************************************************)
(* Functions applied on their own                                          *)
(***************************************************************************)

run ==
    <<message, validation_rules, sanctions_service, enable_verification_messages,
      pc, details, validation_passed, passed, failed, warnings, bank_country,
      swift_answer, sanctions_answer, create_calls, orders, sheet_writes, sent,
      returned>>

\* no message is being processed
NoRun ==
    /\ message = [text |-> <<>>, format |-> "not_order", fields |-> EmptyFieldMap]
    /\ validation_rules = DefaultRules
    /\ sanctions_service = FALSE
    /\ enable_verification_messages = FALSE
    /\ pc = "idle"
    /\ details = EmptyFieldMap
    /\ validation_passed = TRUE
    /\ passed = <<>>
    /\ failed = <<>>
    /\ warnings = <<>>
    /\ bank_country = None
    /\ swift_answer = Unasked
    /\ sanctions_answer = Unasked
    /\ create_calls = 0
    /\ orders = <<>>
    /\ sheet_writes = {}
    /\ sent = <<>>
    /\ returned = "nothing"

Pending(fn, arg) == [NoCall EXCEPT !.fn = fn, !.arg = arg, !.state = "pending"]

\* the longest amount text built from the alphabet
MaxAmountLen == 8

\* the amounts given as examples, and every text of the digit 1, the comma
\* and the dot up to the length
AmountTexts ==
    {<<"1", ",", "2", "3", "4", ".", "5", "6">>,
     <<"1", ".", "2", "3", "4", ",", "5", "6">>,
     <<"1", "2", "3", "4", ",", "5", "6">>,
     <<"1", "2", ",", "3", "4", "5">>}
        \cup UNION {[1..n -> {"1", ",", "."}] : n \in 0..MaxAmountLen}

InitAmount ==
    /\ NoRun
    /\ \E value \in AmountTexts : call = Pending("clean_field_value", value)
    /\ processors = NoProcessors
    /\ database = NoDatabase

\* clean_field_value('amount', value), as extract_message_details calls it
CleanAmount ==
    /\ call.fn = "clean_field_value"
    /\ call.state = "pending"
    /\ call' = [call EXCEPT !.state = "returned",
                            !.out = clean_field_value("amount", call.arg)]
    /\ UNCHANGED <<run, processors, database>>

SpecAmount == InitAmount /\ [][CleanAmount]_vars

\* IBANs of the registry's examples, and two of them as a sender may write them
KnownIbans ==
    {ValidIban,
     <<"G", "B", "2", "9", "N", "W", "B", "K", "6", "0", "1", "6", "1", "3", "3", "1", "9", "2", "6", "8", "1", "9">>,
     <<"B", "E", "6", "8", "5", "3", "9", "0", "0", "7", "5", "4", "7", "0", "3", "4">>,
     <<"N", "L", "9", "1", "A", "B", "N", "A", "0", "4", "1", "7", "1", "6", "4", "3", "0", "0">>}

WrittenIbans ==
    {<<"n", "o", "9", "3", " ", "8", "6", "0", "1", " ", "1", "1", "1", "7", " ", "9", "4", "7">>,
     <<"G", "B", "2", "9", " ", "N", "W", "B", "K", " ", "6", "0", "1", "6", " ", "1", "3", "3", "1", " ", "9", "2", "6", "8", " ", "1", "9">>}

ReplacementChars == Range(DigitChars) \cup {"A", "Z", "b", " ", "-"}

CheckChars == Range(DigitChars) \cup Range(UpperLetters)

\* the texts validate_iban is applied to: the known IBANs, each with one
\* character replaced, cut short, lengthened or under another country code,
\* ValidIban with every pair of check characters, and the empty and blank text
IbanTexts ==
    KnownIbans \cup WrittenIbans \cup {<<>>, <<" ">>}
        \cup UNION {{[v EXCEPT ![k] = c] : k \in DOMAIN v, c \in ReplacementChars} :
                        v \in KnownIbans}
        \cup {SubSeq(v, 1, Len(v) - 1) : v \in KnownIbans}
        \cup {v \o <<"0">> : v \in KnownIbans}
        \cup {[v EXCEPT ![1] = "X", ![2] = "X"] : v \in KnownIbans}
        \cup {[ValidIban EXCEPT ![3] = a, ![4] = b] : a, b \in CheckChars}

\* a text with one of its digits replaced by another digit
DigitReplaced(v) ==
    {[v EXCEPT ![k] = d] :
        k \in {j \in DOMAIN v : IsDigit(v[j])}, d \in Range(DigitChars)} \ {v}

\* the texts of IbanTexts that validate_iban accepts
AcceptedIbans == {v \in IbanTexts : validate_iban(v)[1]}

InitIban ==
    /\ NoRun
    /\ \/ \E v \in IbanTexts : call = Pending("validate_iban", v)
       \/ \E v \in AcceptedIbans : \E w \in DigitReplaced(v) :
              call = [Pending("validate_iban", w) EXCEPT !.replaced = TRUE]
    /\ processors = NoProcessors
    /\ database = NoDatabase

\* IBANValidator.validate_iban(iban): it returns on every text
ValidateIban ==
    /\ call.fn = "validate_iban"
    /\ call.state = "pending"
    /\ call' = [call EXCEPT !.state = "returned",
                            !.valid = validate_iban(call.arg)[1],
                            !.message = validate_iban(call.arg)[2]]
    /\ UNCHANGED <<run, processors, database>>

SpecIban == InitIban /\ [][ValidateIban]_vars

(***************************************************************************)
(* Properties of process_order                                             *)
(***************************************************************************)

\* the required-field validation has returned (it did not raise)
RequiredStepOver ==
    /\ message.format = "ok"
    /\ pc # "start"
    /\ ~RequiredFieldsRaise(details)

\* the bank-details step is over, whether or not its gate let the check run
BankStepOver == RequiredStepOver /\ pc # "bank"

\* process_order has taken its decision at line 128: every enabled check ran
Decided ==
    \/ pc \in {"sheets", "report_failure", "report_success"}
    \/ (pc = "done" /\ message.format = "ok" /\ returned # "nothing")

\* create_order was called and raised
CreateOrderRaised == create_calls > 0 /\ orders = <<>>

SuccessReports == {i \in DOMAIN sent : sent[i].kind = "success"}

ValidationReports == {i \in DOMAIN sent : sent[i].kind = "validation"}

\* C1, as stated: once all enabled checks have run, the order is persisted
\* (create_order completes successfully) if and only if failed is empty.
C1_PersistedIffFailedEmpty ==
    Decided => ((orders # <<>>) <=> (failed = <<>>))

\* C1, amended: once all enabled checks have run, create_order is called if
\* and only if failed is empty, it is called at most once and never before
\* the decision, and an order is persisted only if failed is empty; the call
\* can still raise, which leaves an order with an empty failed unpersisted.
C1_CreateOrderCalledIffFailedEmpty ==
    /\ Decided => ((create_calls = 1) <=> (failed = <<>>))
    /\ ~Decided => create_calls = 0
    /\ Len(orders) <= create_calls
    /\ orders # <<>> => failed = <<>>

\* an order with no failed entry that create_order stored
C1_PersistedOrder == Decided /\ failed = <<>> /\ Len(orders) = 1

\* C2: a spreadsheet write of _process_sheets happens for an order only after
\* create_order has completed successfully for it; if persistence raises, no
\* spreadsheet write is performed.
C2_SheetWritesOnlyAfterPersisted ==
    sheet_writes # {} => orders # <<>>

\* C3: if create_order raises, a Database warning is recorded and the order's
\* outcome is failed: no success report is sent and process_order returns
\* False.
C3_CreateOrderFailureFailsTheOrder ==
    /\ CreateOrderRaised => MsgDbFailed \in Range(warnings)
    /\ (CreateOrderRaised /\ pc = "done") => (returned = "False" /\ SuccessReports = {})

\* what the bank-details step may add to failed: nothing, or the one entry of
\* the IBAN check
OnlyIbanFailureAdded ==
    \/ failed' = failed
    \/ /\ ~Truthy(details["iban"])
       /\ failed' = Append(failed, MsgIbanRequired(OrElse(bank_country', details["bank_country"])))
    \/ /\ Truthy(details["iban"])
       /\ ~validate_iban(details["iban"].s)[1]
       /\ failed' = Append(failed, MsgIbanInvalid(validate_iban(details["iban"].s)[2]))

\* C4, as stated: when the lookup rejects the code (non-200 or success=false)
\* the orchestrator records a hard failure: an entry is appended to failed and
\* the order is not persisted.
C4_RejectedSwiftIsHardFailure ==
    (SwiftRejected(swift_answer) /\ BankStepOver) => (failed # <<>> /\ orders = <<>>)

\* C4, amended: when the lookup rejects the code, verify_swift_and_iban
\* returns (False, invalid-identifier message, None) and the orchestrator
\* records it as a warning: exactly one warnings entry carrying that message
\* is appended, nothing is appended to passed, the stored bank country is
\* None and failed gains at most the entry of the IBAN check; with failed
\* empty at the decision create_order is still called.
C4_RejectedSwiftIsWarning ==
    /\ [][(pc = "bank" /\ SwiftRejected(swift_answer')) =>
             /\ warnings' = Append(warnings,
                    MsgSwiftWarning("Invalid SWIFT code: " \o StrOf(details["swift_code"].s)))
             /\ bank_country' = None
             /\ MsgSwiftValid \notin Range(passed')
             /\ OnlyIbanFailureAdded]_vars
    /\ []((SwiftRejected(swift_answer) /\ Decided /\ failed = <<>>) => create_calls = 1)

\* an order whose SWIFT code the lookup rejected, stored all the same
C4_RejectedSwiftPersisted ==
    SwiftRejected(swift_answer) /\ Len(orders) = 1 /\ Len(warnings) >= 1

\* the lookup succeeded and the two normalized bank names do not contain one
\* another
BankNameMismatch ==
    /\ swift_answer.kind = "ok"
    /\ Truthy(details["bank_name"])
    /\ NamesDisagree(details["bank_name"].s, swift_answer.name)

\* the bank-details step is given such an answer (the step leaves details as
\* they are)
MismatchAnswered ==
    /\ pc = "bank"
    /\ swift_answer'.kind = "ok"
    /\ Truthy(details["bank_name"])
    /\ NamesDisagree(details["bank_name"].s, swift_answer'.name)

\* the success report lists the entry among its warnings
ListedAsWarning(lines, entry) ==
    \E i, j \in DOMAIN lines : i < j /\ lines[i] = "Warnings:" /\ lines[j] = entry

\* C5: when the lookup succeeds but the normalized claimed and resolved bank
\* names do not contain one another, exactly one warnings entry is appended
\* and nothing to failed for it; an order with no other failure (failed empty
\* and create_order not raising) is still persisted, and every success report
\* of such an order lists that warning.
C5_NameMismatchIsWarning ==
    /\ [][MismatchAnswered =>
             /\ warnings' = Append(warnings, MsgSwiftWarning("Bank name mismatch!"))
             /\ MsgSwiftValid \notin Range(passed')
             /\ bank_country' = swift_answer'.country
             /\ OnlyIbanFailureAdded]_vars
    /\ []((BankNameMismatch /\ Decided /\ failed = <<>>) =>
             /\ create_calls = 1
             /\ MsgDbFailed \notin Range(warnings) => Len(orders) = 1)
    /\ [](BankNameMismatch =>
             \A i \in SuccessReports :
                 ListedAsWarning(sent[i].lines, MsgSwiftWarning("Bank name mismatch!")))

\* an order with mismatching bank names stored and reported as a success
C5_MismatchPersistedAndReported ==
    /\ BankNameMismatch
    /\ Len(orders) = 1
    /\ SuccessReports # {}

\* the configuration does not turn both keys of the gate at line 113 off
SwiftOrIbanRequiredByRules ==
    \/ "check_swift" \notin DOMAIN validation_rules
    \/ validation_rules["check_swift"]
    \/ "require_iban" \notin DOMAIN validation_rules
    \/ validation_rules["require_iban"]

IbanPresent == Truthy(details["iban"])

IbanAccepted == validate_iban(details["iban"].s)[1]

IbanFailedEntry == MsgIbanInvalid(validate_iban(details["iban"].s)[2])

\* C6, as stated: for every validation-rule configuration, an order whose
\* extracted IBAN is present is persisted only if validate_iban accepted it;
\* an IBAN with an invalid checksum yields a failed entry citing the IBAN
\* check and no create_order call occurs.
C6_IbanValidatedUnderEveryConfiguration ==
    /\ (IbanPresent /\ orders # <<>>) => IbanAccepted
    /\ (IbanPresent /\ ~IbanAccepted /\ BankStepOver) =>
           (IbanFailedEntry \in Range(failed) /\ create_calls = 0)

\* C6, amended: for every configuration that leaves check_swift or
\* require_iban on (each counts as on when the key is missing), an order
\* whose extracted IBAN is present is persisted only if validate_iban
\* accepted it, and an IBAN that validate_iban rejects yields a failed entry
\* citing the IBAN check and no create_order call; under a configuration that
\* sets both keys to false the IBAN is not examined at all.
C6_IbanValidatedWhenBankDetailsRun ==
    /\ (SwiftOrIbanRequiredByRules /\ IbanPresent /\ orders # <<>>) => IbanAccepted
    /\ (SwiftOrIbanRequiredByRules /\ IbanPresent /\ ~IbanAccepted /\ BankStepOver) =>
           (IbanFailedEntry \in Range(failed) /\ create_calls = 0)
    /\ (~SwiftOrIbanRequiredByRules /\ IbanPresent) =>
           (IbanFailedEntry \notin Range(failed) /\ MsgIbanValid \notin Range(passed))

\* an IBAN with a flipped digit, rejected by the check, and no create_order
\* call at the end
C6_FlippedIbanRejected ==
    /\ SwiftOrIbanRequiredByRules
    /\ details["iban"] = Str(FlippedIban)
    /\ pc = "done"
    /\ IbanFailedEntry \in Range(failed)
    /\ create_calls = 0

\* C7: required-field validation does not short-circuit: for every subset of
\* the six mandatory fields that is absent, one failed entry per absent field
\* is appended, and the pipeline still runs the later bank-detail and
\* sanctions checks up to the decision instead of ending early.
C7_EveryAbsentFieldReported ==
    (message.format = "ok" /\ pc # "start") =>
        /\ \A i \in DOMAIN required_fields :
               ~Truthy(message.fields[required_fields[i][2]]) =>
                   MsgMissing(required_fields[i][1]) \in Range(failed)
        /\ pc # "raised"
        /\ pc = "done" => Decided

IbanGiven == Truthy(Get(details, "iban"))

AccountNumberGiven == Truthy(Get(details, "account_number"))

C9_SanctionsHitBlocksTheOrder ==
    /\ (sanctions_answer.kind = "ok" /\ sanctions_answer.total_hits > 0) =>
           /\ \E i \in DOMAIN failed :
                  failed[i] \in {"SANCTIONS CHECK FAILED", "SANCTIONS CHECK PASSED"}
           /\ ~validation_passed
           /\ create_calls = 0
           /\ orders = <<>>
           /\ sheet_writes = {}
           /\ SuccessReports = {}
    /\ (sanctions_answer.kind = "ok" /\ sanctions_answer.total_hits = 0) =>
           /\ "SANCTIONS CHECK PASSED" \in Range(passed)
           /\ "SANCTIONS CHECK PASSED" \notin Range(failed)
    /\ sanctions_answer # Unasked => RuleGet(validation_rules, "check_sanctions", FALSE)

\* an order with a sanctions hit and nothing else wrong, rejected
C9_HitRejected ==
    /\ sanctions_answer.kind = "ok"
    /\ sanctions_answer.total_hits > 0
    /\ Len(failed) = 1
    /\ pc = "done"
    /\ returned = "False"

\* where the header of a section stands in a report
FailedHeaderAt(lines) == {i \in DOMAIN lines : \E n \in 0..Len(lines) : lines[i] = HdrFailed(n)}

WarningsHeaderAt(lines) ==
    {i \in DOMAIN lines : \E n \in 0..Len(lines) : lines[i] = HdrWarnings(n)}

PassedHeaderAt(lines) == {i \in DOMAIN lines : \E n \in 0..Len(lines) : lines[i] = HdrPassed(n)}

HeadersAt(lines) == FailedHeaderAt(lines) \cup WarningsHeaderAt(lines) \cup PassedHeaderAt(lines)

\* the report has a failed section with at least one entry
HasFailedSection(lines) ==
    \E i \in FailedHeaderAt(lines) : i + 1 \in DOMAIN lines \ HeadersAt(lines)

\* at most one section of each kind, every section with an entry, and the
\* sections in the order failed, warnings, passed
SectionsInOrder(lines) ==
    /\ lines[1] = HdrValidationFailed
    /\ Cardinality(FailedHeaderAt(lines)) <= 1
    /\ Cardinality(WarningsHeaderAt(lines)) <= 1
    /\ Cardinality(PassedHeaderAt(lines)) <= 1
    /\ \A i \in HeadersAt(lines) : i + 1 \in DOMAIN lines \ HeadersAt(lines)
    /\ \A i \in FailedHeaderAt(lines) :
           \A j \in WarningsHeaderAt(lines) \cup PassedHeaderAt(lines) : i < j
    /\ \A i \in WarningsHeaderAt(lines) : \A j \in PassedHeaderAt(lines) : i < j

\* C10, as stated: every failure report sent by the orchestrator contains a
\* non-empty failed section, followed by the warnings section (if any) and
\* then the passed section (if any), in that order.
C10_FailureReportHasFailedSection ==
    \A i \in ValidationReports :
        HasFailedSection(sent[i].lines) /\ SectionsInOrder(sent[i].lines)

\* C10, amended: every failure report lists its sections in the order
\* failed, warnings, passed, each only if it has entries; the report sent at
\* the decision, when a validation failed, contains a non-empty failed
\* section; the report sent after _process_sheets failed contains no failed
\* section: it starts with the warnings section, which holds the
\* sheet-processing warning.
C10_FailureReportSections ==
    \A i \in ValidationReports :
        /\ SectionsInOrder(sent[i].lines)
        /\ create_calls = 0 => HasFailedSection(sent[i].lines)
        /\ create_calls > 0 =>
               /\ FailedHeaderAt(sent[i].lines) = {}
               /\ WarningsHeaderAt(sent[i].lines) = {2}
               /\ MsgSheetProcessing \in Range(sent[i].lines)

\* a failure report sent after _process_sheets failed, with a warnings and a
\* passed section and no failed one
C10_SheetFailureReported ==
    \E i \in ValidationReports :
        /\ FailedHeaderAt(sent[i].lines) = {}
        /\ WarningsHeaderAt(sent[i].lines) # {}
        /\ PassedHeaderAt(sent[i].lines) # {}

(***************************************************************************)
(* The format gate                                                         *)
(***************************************************************************)

\* nothing was extracted, no service was asked, nothing was persisted and no
\* spreadsheet was written
NothingDone ==
    /\ details = EmptyFieldMap
    /\ swift_answer = Unasked
    /\ sanctions_answer = Unasked
    /\ create_calls = 0
    /\ orders = <<>>
    /\ sheet_writes = {}

\* C11: a message whose text has no order-reference label is not an order:
\* is_valid_order_format answers (False, None), and process_order sends no
\* report, extracts nothing, asks no service, persists nothing, writes no
\* spreadsheet and returns False.
C11_NonOrderSilentlyIgnored ==
    ~LabelOccurs(message.text, LblOrderRef) =>
        /\ is_valid_order_format(message.text) =
               [is_valid |-> FALSE, error_message |-> NoError]
        /\ sent = <<>>
        /\ NothingDone
        /\ pc \in {"start", "done"}
        /\ pc = "done" => returned = "False"

\* a text with other labels but no order reference has been processed
C11_NonOrderIgnored ==
    /\ ~LabelOccurs(message.text, LblOrderRef)
    /\ LabelOccurs(message.text, LblAmount)
    /\ enable_verification_messages
    /\ pc = "done"
    /\ returned = "False"

\* is_valid_order_format rejects the text of an order message
FormatRejected ==
    /\ is_order_message(message.text)
    /\ ~is_valid_order_format(message.text).is_valid

\* the messages process_order itself sent; the handler's notice is not one
ProcessOrderSends ==
    {i \in DOMAIN sent :
        sent[i].kind \notin {"handler_error", "handler_failure", "handler_timeout"}}

\* C12: when is_valid_order_format rejects an order message, process_order
\* sends at most the format error, and only with verification messages
\* enabled, extracts nothing, asks no service, persists nothing and writes no
\* spreadsheet; it returns False unless sending the format error raises, and
\* then the exception leaves process_order and the handler reports it.
C12_FormatGate ==
    FormatRejected =>
        /\ NothingDone
        /\ Cardinality(ProcessOrderSends) <= 1
        /\ \A i \in ProcessOrderSends :
              /\ enable_verification_messages
              /\ sent[i] = Report("format_error",
                                  <<is_valid_order_format(message.text).error_message.text>>)
        /\ pc \in {"done", "propagated"} =>
              \/ returned = "False"
              \/ /\ returned = "nothing"
                 /\ enable_verification_messages
                 /\ ProcessOrderSends = {}

\* a text with a label that lacks its colon was rejected and the error sent
C12_FormatErrorSent ==
    /\ FormatRejected
    /\ pc = "done"
    /\ returned = "False"
    /\ sent = <<Report("format_error", <<MsgLabelWithoutColon>>)>>

\* C12 as stated: a rejected order message always makes process_order
\* return False.
C12_RejectedFormatReturnsFalse ==
    (FormatRejected /\ pc \in {"done", "propagated"}) => returned = "False"

\* the mandatory labels the text lacks
MissingLabels == {label \in MandatoryLabels : ~LabelOccurs(message.text, label)}

\* the name the format error gives a mandatory label
LabelName(label) ==
    LET i == CHOOSE k \in DOMAIN format_required_fields :
                 format_required_fields[k][1] = label
    IN  format_required_fields[i][2]

\* is_valid_order_format rejects the text with an error naming the label
FormatErrorNames(label) ==
    is_valid_order_format(message.text) =
        [is_valid |-> FALSE,
         error_message |-> Error(MsgMissingRequired(LabelName(label)))]

\* C13: a text with an order-reference label that lacks a mandatory label
\* fails format validation with an error naming the first label it lacks, in
\* the order currency, amount, pay-out company, and is never persisted; so a
\* text that lacks exactly one of these three gets an error naming it, and
\* one that lacks Amount gets an error naming Amount when Currency is there.
\* A text that lacks the order-reference label gets no error message.
C13_FirstMissingLabelNamed ==
    /\ (LblOrderRef \notin MissingLabels /\ MissingLabels # {}) =>
          /\ FormatErrorNames(IF LblCurrency \in MissingLabels THEN LblCurrency
                              ELSE IF LblAmount \in MissingLabels THEN LblAmount
                              ELSE LblPayOut)
          /\ create_calls = 0
          /\ orders = <<>>
          /\ \A i \in ProcessOrderSends :
                 sent[i].lines = <<is_valid_order_format(message.text).error_message.text>>
    /\ \A label \in MandatoryLabels \ {LblOrderRef} :
          MissingLabels = {label} => FormatErrorNames(label)
    /\ LblOrderRef \in MissingLabels =>
          is_valid_order_format(message.text).error_message = NoError

\* a text that lacks only the Amount label was rejected with the error
\* naming Amount, and nothing was persisted
C13_MissingAmountReported ==
    /\ MissingLabels = {LblAmount}
    /\ pc = "done"
    /\ sent = <<Report("format_error", <<MsgMissingRequired("Amount")>>)>>
    /\ orders = <<>>

\* C13 as stated: an order-reference label without an Amount label gives an
\* error naming Amount, and a text lacking exactly one mandatory label gives
\* an error naming that label.
C13_TheMissingLabelNamed ==
    /\ (LblOrderRef \notin MissingLabels /\ LblAmount \in MissingLabels) =>
          FormatErrorNames(LblAmount)
    /\ \A label \in MandatoryLabels :
          MissingLabels = {label} => FormatErrorNames(label)

(***************************************************************************)
(* Amount normalization                                                    *)
(***************************************************************************)

\* the digits after the last separator of a text
LastGroup(v) == SubSeq(v, LastSeparator(v) + 1, Len(v))

\* the rule as specified: with both separators a final group of exactly two
\* digits is the decimal part and every other separator goes, otherwise all
\* separators go; a single comma is a decimal point when at most two digits
\* follow it and goes otherwise
SpecifiedAmount(v) ==
    IF "," \in Range(v) /\ "." \in Range(v)
    THEN IF Len(LastGroup(v)) = 2
         THEN Without(SubSeq(v, 1, LastSeparator(v) - 1), Separators)
                  \o <<".">> \o LastGroup(v)
         ELSE Without(v, Separators)
    ELSE IF Len(LastGroup(v)) <= 2
         THEN Replace(v, ",", ".")
         ELSE Without(v, Separators)

\* the rule speaks of the text: both separators, or one comma and no dot
RuleSpeaksOf(v) ==
    \/ "," \in Range(v) /\ "." \in Range(v)
    \/ Count(v, ",") = 1 /\ "." \notin Range(v)

\* two cleaned amounts are the same number: a dot at the end adds nothing
WithoutEndDot(v) ==
    IF v # <<>> /\ v[Len(v)] = "." THEN SubSeq(v, 1, Len(v) - 1) ELSE v

SameNumber(a, b) == WithoutEndDot(a) = WithoutEndDot(b)

\* C14 as stated: for a text of digits, commas and dots of which the rule
\* speaks, clean_field_value('amount', text) is the number the rule gives.
C14_AmountNormalizedAsSpecified ==
    (/\ call.fn = "clean_field_value"
     /\ call.state = "returned"
     /\ RuleSpeaksOf(call.arg))
        => SameNumber(call.out, SpecifiedAmount(call.arg))

\* the example "12,345", which the rule reads as 12345
C14_TwelveThousandCleaned ==
    /\ call.state = "returned"
    /\ call.arg = <<"1", "2", ",", "3", "4", "5">>
    /\ SpecifiedAmount(call.arg) = <<"1", "2", "3", "4", "5">>
    /\ call.out = <<"1", "2", ".", "3", "4", "5">>

(***************************************************************************)
(* The IBAN validator                                                      *)
(***************************************************************************)

\* the decimal digits of a text of digits and upper-case letters, a letter
\* written as the two digits of 10..35
RECURSIVE NumericText(_)
NumericText(s) ==
    IF s = <<>> THEN <<>>
    ELSE IF IsDigit(Head(s)) THEN <<DigitValue(Head(s))>> \o NumericText(Tail(s))
    ELSE <<(LetterIndex(Head(s)) + 10) \div 10, (LetterIndex(Head(s)) + 10) % 10>>
             \o NumericText(Tail(s))

\* the remainder modulo 97 of the number with the decimal digits ds
RECURSIVE Remainder97(_)
Remainder97(ds) ==
    IF ds = <<>> THEN 0
    ELSE (Remainder97(SubSeq(ds, 1, Len(ds) - 1)) * 10 + ds[Len(ds)]) % 97

\* the length table has the country code and gives the text's length, and
\* the text with its first four characters moved to the end is 1 modulo 97
LengthAndChecksumRight(iban) ==
    /\ iban[1] \o iban[2] \in DOMAIN IBAN_LENGTHS
    /\ Len(iban) = IBAN_LENGTHS[iban[1] \o iban[2]]
    /\ Remainder97(NumericText(SubSeq(iban, 5, Len(iban)) \o SubSeq(iban, 1, 4))) = 1

\* a country code, two check digits and then letters and digits
CheckDigitsShape(iban) ==
    /\ IbanShape(iban)
    /\ IsDigit(iban[3])
    /\ IsDigit(iban[4])

IbanReturned == call.fn = "validate_iban" /\ call.state = "returned"

\* C15 as stated: validate_iban returns valid exactly when the cleaned text
\* has the shape of a country code and check digits, the table has its
\* country code and gives its length, and the rearranged number is 1 modulo
\* 97; otherwise it returns invalid with a diagnostic.
C15_ValidIffShapeLengthChecksum ==
    IbanReturned =>
        LET iban == clean_iban(call.arg)
        IN  /\ call.valid <=> (/\ call.arg # <<>>
                               /\ CheckDigitsShape(iban)
                               /\ LengthAndChecksumRight(iban))
            /\ ~call.valid => call.message # ""

\* a text whose check characters are letters was accepted
C15_LetterCheckCharactersAccepted ==
    /\ IbanReturned
    /\ call.arg = [ValidIban EXCEPT ![3] = "E", ![4] = "5"]
    /\ call.valid

\* With the shape the pattern of line 56 gives (two letters, then at least two
\* letters or digits) the equivalence holds on every text.
ValidIffPatternLengthChecksum ==
    IbanReturned =>
        LET iban == clean_iban(call.arg)
        IN  /\ call.valid <=> (/\ call.arg # <<>>
                               /\ IbanShape(iban)
                               /\ LengthAndChecksumRight(iban))
            /\ ~call.valid => call.message # ""

\* C16: when validate_iban accepts a text, it rejects every text made from
\* it by replacing one digit by another digit.
C16_ReplacedDigitRejected ==
    (IbanReturned /\ call.replaced) => ~call.valid

\* ValidIban with its last digit replaced was rejected for its checksum
C16_FlippedLastDigitRejected ==
    /\ IbanReturned
    /\ call.replaced
    /\ call.arg = FlippedIban
    /\ call.message = "IBAN checksum is invalid"

(***************************************************************************)
(* The handler's time limit                                                *)
(***************************************************************************)

\* message_handler is over: it returned, or its last exception left it
HandlerOver == pc \in {"done", "propagated"}

\* the last text sent is a notice of the handler's clause for the timeout, or
\* of the outer clause that took over when that notice could not be sent
TimeoutNoticeLast ==
    /\ sent # <<>>
    /\ sent[Len(sent)].kind \in {"handler_timeout", "handler_failure"}

\* C17: when the limit of 60 seconds runs out before process_order is over,
\* message_handler eventually sends the timeout notice, whatever the output
\* settings, or the generic notice if that send fails, and sends nothing only
\* if both sends fail.  A run that ends with no message at all is one in which
\* process_order returned in time or the handler's own sends failed.
C17_TimeoutReported ==
    /\ (pc = "timed_out") ~> ((pc = "done" /\ TimeoutNoticeLast) \/ pc = "propagated")
    /\ []((HandlerOver /\ sent = <<>>) => (returned # "nothing" \/ pc = "propagated"))

\* the limit ran out with verification messages disabled and the notice was
\* sent all the same
C17_TimeoutNoticeSentWhenDisabled ==
    /\ pc = "done"
    /\ ~enable_verification_messages
    /\ returned = "nothing"
    /\ sent = <<Report("handler_timeout", <<"Order processing timed out. Please check.">>)>>

\* C17 as stated: no order message whose processing started ends without a
\* report or a notice.
C17_EveryOrderEndsWithMessage ==
    (HandlerOver /\ is_order_message(message.text)) => sent # <<>>

(***************************************************************************)
(* The run of a good order                                                 *)
(***************************************************************************)

\* a well-formed message with the mandatory fields, an IBAN that passes the
\* checksum, a lookup that succeeded with a matching name, no screening hit,
\* the order stored and the sheet row written
HappyRun ==
    /\ message.format = "ok"
    /\ \A f \in {"order_ref", "currency", "amount", "payout_company",
                 "beneficiary_name", "iban", "swift_code", "bank_name"} :
           Truthy(details[f])
    /\ validate_iban(details["iban"].s)[1]
    /\ swift_answer.kind = "ok"
    /\ ~NamesDisagree(details["bank_name"].s, swift_answer.name)
    /\ sanctions_answer = Unasked
           \/ (sanctions_answer.kind = "ok" /\ sanctions_answer.total_hits = 0)
    /\ Len(orders) = 1
    /\ "internal:Orders" \in sheet_writes

\* the report gives the order's reference and its amount
NamesOrder(report) ==
    /\ ("Reference: " \o StrOf(details["order_ref"].s)) \in Range(report.lines)
    /\ ("Amount: " \o StrOf(details["amount"].s) \o " " \o StrOf(details["currency"].s))
           \in Range(report.lines)

\* C18: every run ends.  The order is stored before any sheet is written and
\* before anything is sent, and the sheets are written before the success
\* report.  A good order's run that process_order finishes within the limit
\* has called create_order once and returned True, and has sent nothing but
\* the success report naming the order's reference and amount, once at most
\* and only with verification messages enabled.
C18_GoodOrderPersistedThenReported ==
    /\ (pc = "start") ~> HandlerOver
    /\ []((HappyRun /\ HandlerOver /\ returned # "nothing") =>
             /\ pc = "done"
             /\ returned = "True"
             /\ create_calls = 1
             /\ Len(sent) <= 1
             /\ sent # <<>> => enable_verification_messages
             /\ \A i \in DOMAIN sent : sent[i].kind = "success" /\ NamesOrder(sent[i]))
    /\ [][/\ orders' # orders => (sheet_writes = {} /\ sent = <<>>)
          /\ sheet_writes' # sheet_writes => SuccessReports = {}]_vars

\* a good order's run ended with the one success report
C18_GoodOrderReported ==
    /\ HappyRun
    /\ pc = "done"
    /\ returned = "True"
    /\ Len(sent) = 1
    /\ sent[1].kind = "success"
    /\ NamesOrder(sent[1])

\* C18 as stated: a good order's run that process_order finishes has sent
\* exactly one success report and returned True.
C18_GoodOrderAlwaysReported ==
    (HappyRun /\ pc = "done" /\ returned # "nothing") =>
        (returned = "True" /\ Cardinality(SuccessReports) = 1)

(***************************************************************************)
(* The IBAN a country requires                                             *)
(***************************************************************************)

\* the country the lookup resolved, or else the bank country of the message
EffectiveCountry == OrElse(bank_country, Get(details, "bank_country"))

\* check_iban is on, no IBAN was extracted and the effective country is one
\* of the countries where an IBAN is mandatory
IbanOwedToCountry ==
    /\ BankStepOver
    /\ "check_iban" \in DOMAIN validation_rules
    /\ validation_rules["check_iban"]
    /\ Get(details, "iban").has # "str"
    /\ Truthy(EffectiveCountry)
    /\ StrOf(Upper(EffectiveCountry.s)) \in IBAN_MANDATORY_COUNTRIES

\* C19: under a configuration that leaves check_swift or require_iban on,
\* when check_iban is on, no IBAN was extracted and the effective country is
\* in the IBAN-mandatory set, _validate_bank_details appends a failed entry
\* citing that country and the order is not persisted; with both keys off
\* _validate_bank_details does not run and no such entry is appended.
C19_IbanRequiredWhenBankDetailsRun ==
    /\ (IbanOwedToCountry /\ SwiftOrIbanRequiredByRules) =>
          /\ MsgIbanRequired(EffectiveCountry) \in Range(failed)
          /\ create_calls = 0
          /\ orders = <<>>
    /\ (IbanOwedToCountry /\ ~SwiftOrIbanRequiredByRules) =>
          MsgIbanRequired(EffectiveCountry) \notin Range(failed)

\* an order with an account number and no IBAN, for a bank the lookup places
\* in Norway, was rejected with the entry citing Norway
C19_NorwayWithoutIbanRejected ==
    /\ IbanOwedToCountry
    /\ AccountNumberGiven
    /\ swift_answer.kind = "ok"
    /\ bank_country = Str(IbanCountry)
    /\ pc = "done"
    /\ returned = "False"
    /\ failed = <<MsgIbanRequired(Str(IbanCountry))>>

\* C19 as stated: when check_iban is on, no IBAN was extracted and the
\* effective country is in the IBAN-mandatory set, a failed entry citing the
\* country is appended and the order is not persisted.
C19_IbanRequiredByCountry ==
    IbanOwedToCountry =>
        /\ MsgIbanRequired(EffectiveCountry) \in Range(failed)
        /\ orders = <<>>

(***************************************************************************)
(* A screening service that fails                                          *)
(***************************************************************************)

\* the screening service answered with another status than 200, or the
\* request failed
ScreeningFailed(answer) == answer.kind \in {"non200", "error"}

\* C20: an answer of the screening service with another status than 200, or
\* a request that fails, counts as zero hits: validate_entity returns
\* is_valid = True, process_order appends the passed entry, appends no failed
\* entry and leaves validation_passed as it was; so an order with no failed
\* entry from the other checks goes on to create_order.
C20_ScreeningFailureCountsAsNoHit ==
    /\ [][(pc = "sanctions" /\ ScreeningFailed(sanctions_answer')) =>
             /\ validate_entity(details, sanctions_answer').is_valid
             /\ passed' = Append(passed, "SANCTIONS CHECK PASSED")
             /\ failed' = failed
             /\ validation_passed' = validation_passed]_vars
    /\ []((ScreeningFailed(sanctions_answer) /\ Decided /\ failed = <<>>) =>
             create_calls = 1)

\* the request to the screening service failed and the order was stored
C20_PersistedAfterScreeningFailure ==
    /\ sanctions_answer.kind = "error"
    /\ "SANCTIONS CHECK PASSED" \in Range(passed)
    /\ Len(orders) = 1
    /\ pc = "done"
    /\ returned = "True"

(***************************************************************************)
(* Nothing before the decision                                             *)
(***************************************************************************)

NoEffects == create_calls = 0 /\ orders = <<>> /\ sheet_writes = {}

\* process_order has not yet finished the checks
BeforeDecision == pc \in {"start", "bank", "sanctions"}

\* C21: create_order is called and a spreadsheet written only at or after
\* the decision, which is reached only through the required-field, the
\* bank-detail and the sanctions step in this order; so while the checks are
\* not over nothing is persisted or propagated, and a run cancelled or
\* raising there ends with nothing persisted or propagated.
C21_NoEffectBeforeDecision ==
    /\ [](BeforeDecision => NoEffects)
    /\ [][/\ pc' = "bank" => pc = "start"
          /\ pc' = "sanctions" => pc = "bank"
          /\ pc' = "decide" => pc = "sanctions"
          /\ effects' # effects => pc \in {"decide", "sheets"}
          /\ (BeforeDecision /\ pc' \in {"timed_out", "raised"}) => NoEffects']_vars

\* the limit of 60 seconds ran out during the sanctions step and the handler
\* ended with nothing persisted or propagated
C21_CancelledBeforeDecision ==
    /\ pc = "done"
    /\ returned = "nothing"
    /\ sanctions_answer = Unasked
    /\ swift_answer # Unasked
    /\ sent # <<>>
    /\ sent[Len(sent)].kind = "handler_timeout"
    /\ NoEffects

(***************************************************************************)
(* Sheets that fail after the order was stored                             *)
(***************************************************************************)

\* _process_sheets has returned
SheetsOver == pc \in {"report_success", "report_failure"}

\* one of the three sheet operations wrote nothing: the internal row was not
\* appended, update_value_by_match returned False, or the HD Pay row the
\* payout company calls for was not written
SheetOperationFailed ==
    \/ "internal:Orders" \notin sheet_writes
    \/ "hd_vr:D" \notin sheet_writes
    \/ HasHdPaySheet(details) /\ "hd_pay:row" \notin sheet_writes

SheetWarning ==
    \E i \in DOMAIN warnings : warnings[i] \in {MsgSheetNotSaved, MsgSheetProcessing}

\* the stored order is never removed or altered
PersistedOrderKept ==
    [][\A i \in DOMAIN orders : i \in DOMAIN orders' /\ orders'[i] = orders[i]]_vars

\* C22: when a sheet operation fails after the order was stored, a warnings
\* entry is recorded, and the stored order stays as it is.
C22_SheetFailureWarnedOrderKept ==
    /\ [](SheetsOver /\ orders # <<>> /\ SheetOperationFailed => SheetWarning)
    /\ PersistedOrderKept

\* the order is stored, its row appended to the internal sheet, the VR sheet
\* has no row of this order, and the success report is about to go out
\* without any warning
C22_VrUpdateFailedUnwarned ==
    /\ pc = "report_success"
    /\ orders # <<>>
    /\ "internal:Orders" \in sheet_writes
    /\ "hd_vr:D" \notin sheet_writes
    /\ warnings = <<>>

(***************************************************************************)
(* forwarder/database/manager.py: DatabaseManager.initialize, called by    *)
(* several handlers at once                                                *)
(***************************************************************************)

\* the handlers that call initialize, and the instances that may be built
MaxCallers == 3

MaxInstances == 2

Callers == 1..MaxCallers

Idle == [pc |-> "idle", own |-> 0, got |-> 0]

InitDatabase ==
    /\ NoRun
    /\ call = NoCall
    /\ processors = NoProcessors
    /\ database = [NoDatabase EXCEPT !.callers = [c \in Callers |-> Idle]]

\* lines 98-112 up to the await: with _instance None the caller builds the
\* instance, stores it in the class and starts the connection test; with
\* _instance set the caller is handed it at once
InitializeEnter(c) ==
    /\ database.callers[c].pc = "idle"
    /\ IF database.instance = 0
       THEN /\ database.made < MaxInstances
            /\ database' =
                   [database EXCEPT !.made = @ + 1,
                                    !.instance = database.made + 1,
                                    !.callers[c] = [pc |-> "testing",
                                                    own |-> database.made + 1,
                                                    got |-> 0]]
       ELSE database' =
                [database EXCEPT !.callers[c] = [pc |-> "returned", own |-> 0,
                                                 got |-> database.instance]]
    /\ UNCHANGED <<run, call, processors>>

\* lines 104-112 after the await: the test succeeded and cls._instance is
\* returned, or it raised, _instance is set to None and the error re-raised
ConnectionTested(c) ==
    /\ database.callers[c].pc = "testing"
    /\ \E succeeded \in BOOLEAN :
          IF succeeded
          THEN database' =
                   [database EXCEPT !.tested = @ \cup {database.callers[c].own},
                                    !.callers[c].pc = "returned",
                                    !.callers[c].got = database.instance]
          ELSE database' =
                   [database EXCEPT !.instance = 0,
                                    !.callers[c].pc = "raised"]
    /\ UNCHANGED <<run, call, processors>>

\* the handler is over and its reference dropped; it may be called again
HandlerReturns(c) ==
    /\ database.callers[c].pc \in {"returned", "raised"}
    /\ database' = [database EXCEPT !.callers[c] = Idle]
    /\ UNCHANGED <<run, call, processors>>

NextDatabase ==
    \/ \E c \in Callers : InitializeEnter(c)
    \/ \E c \in Callers : ConnectionTested(c)
    \/ \E c \in Callers : HandlerReturns(c)

SpecDatabase == InitDatabase /\ [][NextDatabase]_vars

(***************************************************************************)
(* One tested instance                                                     *)
(***************************************************************************)

\* the instances some caller or the class refers to
LiveInstances ==
    ({database.instance}
        \cup {database.callers[c].got : c \in DOMAIN database.callers}
        \cup {database.callers[c].own : c \in {k \in DOMAIN database.callers :
                                                  database.callers[k].pc = "testing"}})
        \ {0}

\* C30: under concurrent calls of initialize at most one instance is live,
\* and a caller is only ever handed an instance whose connection test has
\* succeeded.
C30_OneLiveTestedInstance ==
    /\ Cardinality(LiveInstances) <= 1
    /\ \A c \in DOMAIN database.callers :
          database.callers[c].pc = "returned" =>
              database.callers[c].got \in database.tested

\* a second caller was handed the instance while the first caller's test of
\* it was still under way; the test then failed, and a third caller built
\* another instance
C30_UntestedInstanceHandedOut ==
    /\ database.callers # <<>>
    /\ \E b, c \in Callers :
          /\ database.callers[b].pc = "returned"
          /\ database.callers[b].got = 1
          /\ 1 \notin database.tested
          /\ database.callers[c].pc = "testing"
          /\ database.callers[c].own = 2

(***************************************************************************)
(* forwarder/modules/message_handler.py: several messages handled at once, *)
(* one OrderProcessor each, interleaved at the awaits of the checks        *)
(***************************************************************************)

\* the messages in flight together
MaxProcessors == 2

ProcessorIds == 1..MaxProcessors

\* the orders sent together: a regular one, one without amount, one with a
\* wrong IBAN under rules that screen the beneficiary
ConcurrentInputs ==
    {Regular,
     [Regular EXCEPT !.amount = None],
     [Regular EXCEPT !.iban = Str(FlippedIban), !.check_sanctions = TRUE]}

\* the answers the two services give to the orders sent together
ConcurrentSwiftResponses ==
    {r \in SwiftResponses :
        r.kind = "non200" \/ (r.kind = "ok" /\ r.country = Str(IbanCountry))}

ConcurrentSanctionsResponses ==
    {r \in SanctionsResponses :
        r.kind = "error" \/ (r.kind = "ok" /\ r.found_records # <<>>)}

\* message_handler lines 73-81 and OrderProcessor.__init__: the processor of
\* one message, with a ProcessingResult of its own
NewProcessor(i) ==
    [fields |-> FieldMapOf(i),
     validation_rules |-> EffectiveRules(RulesOf(i)),
     sanctions_service |->
         HasSanctionsService(RulesOf(i),
             HandlerSanctionsConfig(RulesOf(i), i.sanctions_configured)),
     pc |-> "start",
     details |-> EmptyFieldMap,
     validation_passed |-> TRUE,
     passed |-> <<>>,
     failed |-> <<>>,
     warnings |-> <<>>,
     bank_country |-> None,
     swift_answer |-> Unasked,
     sanctions_answer |-> Unasked]

InitConcurrent ==
    /\ NoRun
    /\ call = NoCall
    /\ database = NoDatabase
    /\ processors \in [ProcessorIds -> {NewProcessor(i) : i \in ConcurrentInputs}]

\* one ProcessingResult for every processor, as a class attribute would be
Assigned_to_all(p, state) ==
    [q \in DOMAIN processors |->
        IF q = p THEN state
        ELSE [processors[q] EXCEPT !.passed = state.passed,
                                   !.failed = state.failed,
                                   !.warnings = state.warnings,
                                   !.bank_country = state.bank_country]]

\* self.validation_results and the locals of process_order belong to the
\* processor that runs the step
Assigned(p, state) == [processors EXCEPT ![p] = state]

\* lines 102-110 in processor p
ProcessorRequiredFields(p) ==
    LET self == processors[p]
    IN  /\ self.pc = "start"
        /\ processors' =
               Assigned(p,
                   IF RequiredFieldsRaise(self.fields)
                   THEN [self EXCEPT !.pc = "raised", !.details = self.fields]
                   ELSE [self EXCEPT !.pc = "bank",
                                     !.details = self.fields,
                                     !.failed = @ \o RequiredFieldEntries(self.fields),
                                     !.validation_passed =
                                         validate_required_fields(self.fields)])
        /\ UNCHANGED <<run, call, database>>

\* lines 112-115 in processor p, for some answer of the lookup service
ProcessorBankDetails(p) ==
    LET self == processors[p]
    IN  /\ self.pc = "bank"
        /\ IF BankDetailsEnabled(self.validation_rules)
           THEN \E resp \in ConcurrentSwiftResponses :
                   LET r == validate_bank_details(self.details, self.validation_rules, resp)
                   IN  processors' =
                           Assigned(p,
                               [self EXCEPT !.pc = "sanctions",
                                            !.swift_answer = resp,
                                            !.passed = @ \o r.passed,
                                            !.warnings = @ \o r.warnings,
                                            !.failed = @ \o r.failed,
                                            !.bank_country = r.bank_country,
                                            !.validation_passed = @ /\ r.ok])
           ELSE processors' = Assigned(p, [self EXCEPT !.pc = "sanctions"])
        /\ UNCHANGED <<run, call, database>>

\* lines 117-125 in processor p, for some answer of the screening service
ProcessorSanctions(p) ==
    LET self == processors[p]
    IN  /\ self.pc = "sanctions"
        /\ IF ~RuleGet(self.validation_rules, "check_sanctions", FALSE)
           THEN processors' = Assigned(p, [self EXCEPT !.pc = "decide"])
           ELSE IF ~self.sanctions_service
           THEN processors' = Assigned(p, [self EXCEPT !.pc = "raised"])
           ELSE \E resp \in ConcurrentSanctionsResponses :
                   LET sanctions_result == validate_entity(self.details, resp)
                   IN  processors' =
                           Assigned(p,
                               IF sanctions_result.is_valid
                               THEN [self EXCEPT !.pc = "decide",
                                                 !.sanctions_answer = resp,
                                                 !.passed = Append(@, sanctions_result.message)]
                               ELSE [self EXCEPT !.pc = "decide",
                                                 !.sanctions_answer = resp,
                                                 !.failed = Append(@, sanctions_result.message),
                                                 !.validation_passed = FALSE])
        /\ UNCHANGED <<run, call, database>>

NextConcurrent ==
    \/ \E p \in ProcessorIds : ProcessorRequiredFields(p)
    \/ \E p \in ProcessorIds : ProcessorBankDetails(p)
    \/ \E p \in ProcessorIds : ProcessorSanctions(p)

SpecConcurrent == InitConcurrent /\ [][NextConcurrent]_vars

(***************************************************************************)
(* Each processor's outcome comes from its own message                     *)
(***************************************************************************)

\* what the checks done so far give on the processor's own message and the
\* answers it received, run on their own
OwnOutcome(self) ==
    LET required ==
            [passed |-> <<>>, warnings |-> <<>>,
             failed |-> RequiredFieldEntries(self.fields), bank_country |-> None]
        bank_ran == self.pc \in {"sanctions", "decide"}
                        /\ BankDetailsEnabled(self.validation_rules)
        b == validate_bank_details(self.fields, self.validation_rules, self.swift_answer)
        bank ==
            IF bank_ran
            THEN [passed |-> required.passed \o b.passed,
                  warnings |-> required.warnings \o b.warnings,
                  failed |-> required.failed \o b.failed,
                  bank_country |-> b.bank_country]
            ELSE required
        screened == self.pc = "decide"
                        /\ RuleGet(self.validation_rules, "check_sanctions", FALSE)
        s == validate_entity(self.fields, self.sanctions_answer)
    IN  IF self.pc = "start"
        THEN [passed |-> <<>>, warnings |-> <<>>, failed |-> <<>>, bank_country |-> None]
        ELSE IF ~screened THEN bank
        ELSE IF s.is_valid THEN [bank EXCEPT !.passed = Append(@, s.message)]
        ELSE [bank EXCEPT !.failed = Append(@, s.message)]

\* C23: with several processors interleaved at their awaits, the passed,
\* failed and warnings lists and the bank_country of each processor are those
\* the checks give on that processor's own message and answers, and a step of
\* one processor leaves every other processor's fields and outcome as they
\* were.
C23_OutcomeFromOwnMessage ==
    /\ [](\A p \in DOMAIN processors :
             LET own == OwnOutcome(processors[p])
             IN  /\ processors[p].passed = own.passed
                 /\ processors[p].failed = own.failed
                 /\ processors[p].warnings = own.warnings
                 /\ processors[p].bank_country = own.bank_country)
    /\ [][\A p, q \in DOMAIN processors :
             (p # q /\ processors'[p] # processors[p]) => processors'[q] = processors[q]]_vars

\* both processors are through their checks; the first, of the regular
\* order, has no failed entry, the second, of the order without amount, has
\* its own failed entry
C23_TwoOrdersDecidedApart ==
    /\ processors # NoProcessors
    /\ processors[1].pc = "decide"
    /\ processors[2].pc = "decide"
    /\ processors[1].fields["amount"] # None
    /\ processors[2].fields["amount"] = None
    /\ processors[1].failed = <<>>
    /\ processors[1].passed # <<>>
    /\ processors[2].failed # <<>>

(***************************************************************************)
(* forwarder/utils/message.py on the characters of a message text: the     *)
(* patterns of is_order_message, is_valid_order_format and                 *)
(* extract_message_details as re.search and re.match apply them            *)
(***************************************************************************)

\* the words of each label, which the patterns join by \s* and compare
\* without regard to case; the optional "Bank" before SWIFT is BankSwift
LabelWords ==
    [order_ref |-> <<<<"O", "R", "D", "E", "R">>, <<"R", "E", "F">>>>,
     currency |-> <<<<"C", "U", "R", "R", "E", "N", "C", "Y">>>>,
     amount |-> <<<<"A", "M", "O", "U", "N", "T">>>>,
     payout_company |-> <<<<"P", "A", "Y">>, <<"O", "U", "T">>, <<"C", "O", "M", "P", "A", "N", "Y">>>>,
     purpose |-> <<<<"P", "U", "R", "P", "O", "S", "E">>>>,
     remark |-> <<<<"R", "E", "M", "A", "R", "K">>>>,
     beneficiary_name |-> <<<<"B", "E", "N", "E", "F", "I", "C", "I", "A", "R", "Y">>, <<"N", "A", "M", "E">>>>,
     beneficiary_country |-> <<<<"B", "E", "N", "E", "F", "I", "C", "I", "A", "R", "Y">>, <<"C", "O", "U", "N", "T", "R", "Y">>>>,
     beneficiary_address |-> <<<<"B", "E", "N", "E", "F", "I", "C", "I", "A", "R", "Y">>, <<"A", "D", "D", "R", "E", "S", "S">>>>,
     account_number |-> <<<<"B", "A", "N", "K">>, <<"A", "C", "C", "O", "U", "N", "T">>, <<"N", "U", "M", "B", "E", "R">>>>,
     iban |-> <<<<"I", "B", "A", "N">>>>,
     swift_code |-> <<<<"S", "W", "I", "F", "T">>>>,
     bank_name |-> <<<<"B", "A", "N", "K">>, <<"N", "A", "M", "E">>>>,
     bank_address |-> <<<<"B", "A", "N", "K">>, <<"A", "D", "D", "R", "E", "S", "S">>>>,
     bank_country |-> <<<<"B", "A", "N", "K">>, <<"C", "O", "U", "N", "T", "R", "Y">>>>]

BankSwift == <<<<"B", "A", "N", "K">>, <<"S", "W", "I", "F", "T">>>>

\* Order\s*No\. , which is_order_message and is_valid_order_format know
OrderNo == <<<<"O", "R", "D", "E", "R">>, <<"N", "O", ".">>>>

\* (?:erence)? after Order\s*Ref
Erence == <<"E", "R", "E", "N", "C", "E">>

\* the literal word at a place of the text, in any case
WordAt(text, pos, word) ==
    /\ pos >= 1
    /\ pos + Len(word) - 1 <= Len(text)
    /\ Upper(SubSeq(text, pos, pos + Len(word) - 1)) = word

\* \s* from a place on: the place of the next character that is no whitespace
RECURSIVE SkipSpace(_, _)
SkipSpace(text, pos) ==
    IF pos <= Len(text) /\ text[pos] \in Whitespace THEN SkipSpace(text, pos + 1) ELSE pos

\* the place after a label whose words start at pos, 0 when it is not there
RECURSIVE LabelEnd(_, _, _)
LabelEnd(text, pos, label) ==
    IF ~WordAt(text, pos, Head(label)) THEN 0
    ELSE IF Len(label) = 1 THEN pos + Len(Head(label))
    ELSE LabelEnd(text, SkipSpace(text, pos + Len(Head(label))), Tail(label))

\* extract_message_details.field_labels behind \[? : the lookahead
\* (?=\[?(?:field_labels):?\]?) holds at pos
NextFieldAt(text, pos) ==
    \E label \in {LabelWords[f] : f \in DOMAIN LabelWords} \cup {BankSwift} :
        \/ LabelEnd(text, pos, label) # 0
        \/ pos <= Len(text) /\ text[pos] = "[" /\ LabelEnd(text, pos + 1, label) # 0

\* $ holds at pos: at the end of the text and, under re.MULTILINE, before
\* every newline
DollarAt(text, pos, multiline) ==
    \/ pos = Len(text) + 1
    \/ pos = Len(text) /\ text[pos] = "\n"
    \/ multiline /\ pos <= Len(text) /\ text[pos] = "\n"

\* (.+?) from pos on: the place of the last character of the shortest
\* non-empty text after which the lookahead holds
RECURSIVE ValueEnd(_, _, _)
ValueEnd(text, pos, multiline) ==
    IF pos >= Len(text) \/ NextFieldAt(text, pos + 1) \/ DollarAt(text, pos + 1, multiline)
    THEN pos
    ELSE ValueEnd(text, pos + 1, multiline)

\* the places at which the label part of a field's pattern can end when it
\* starts at pos: (?:erence)? after Order Ref, [^:]* after Pay Out Company,
\* (?:Bank\s*)? before SWIFT
LabelEnds(text, pos, field) ==
    LET end == LabelEnd(text, pos, LabelWords[field])
        bank_swift == LabelEnd(text, pos, BankSwift)
    IN  IF field = "swift_code" /\ bank_swift # 0 THEN {bank_swift}
        ELSE IF end = 0 THEN {}
        ELSE IF field = "order_ref"
        THEN {end} \cup (IF WordAt(text, end, Erence) THEN {end + Len(Erence)} ELSE {})
        ELSE IF field = "payout_company"
        THEN {e \in end..(Len(text) + 1) : \A k \in end..(e - 1) : text[k] # ":"}
        ELSE {end}

\* the ways \[?label:?\]? of a field's pattern matches from pos on and leaves
\* a character for (.+?): <<end of the label, ":" taken, "]" taken, place
\* after the three>>.  The pattern of iban has no brackets and needs its colon.
PrefixMatches(text, pos, field) ==
    LET from == IF field # "iban" /\ pos <= Len(text) /\ text[pos] = "[" THEN pos + 1 ELSE pos
    IN  {m \in UNION {{<<e, c, b, e + c + b>> : c \in 0..1, b \in 0..1} :
                         e \in LabelEnds(text, from, field)} :
            /\ m[2] = 1 => (m[1] <= Len(text) /\ text[m[1]] = ":")
            /\ m[3] = 1 => (m[1] + m[2] <= Len(text) /\ text[m[1] + m[2]] = "]")
            /\ field = "iban" => (m[2] = 1 /\ m[3] = 0)
            /\ m[4] <= Len(text)}

\* the match the backtracking reaches first: each greedy part as long as it
\* can be
FirstPrefixMatch(text, pos, field) ==
    LET all == PrefixMatches(text, pos, field)
    IN  CHOOSE m \in all :
            \A o \in all :
                \/ m[1] > o[1]
                \/ m[1] = o[1] /\ m[2] > o[2]
                \/ m[1] = o[1] /\ m[2] = o[2] /\ m[3] >= o[3]

\* re.search(patterns[field], message_text, flags).group(1): None when the
\* pattern matches nowhere; \s* takes the whitespace after the label but
\* leaves its last character when nothing else is left for (.+?)
SearchField(text, field, multiline) ==
    LET starts == {pos \in 1..Len(text) : PrefixMatches(text, pos, field) # {}}
    IN  IF starts = {} THEN None
        ELSE LET start == CHOOSE pos \in starts : \A other \in starts : pos <= other
                 after == FirstPrefixMatch(text, start, field)[4]
                 from == IF SkipSpace(text, after) <= Len(text)
                         THEN SkipSpace(text, after) ELSE Len(text)
             IN  Str(SubSeq(text, from, ValueEnd(text, from, multiline)))

\* re.sub(r'[:|,\s]+$', '', value)
RECURSIVE RStripSeparators(_)
RStripSeparators(value) ==
    IF value # <<>> /\ value[Len(value)] \in {":", "|", ","} \cup Whitespace
    THEN RStripSeparators(SubSeq(value, 1, Len(value) - 1))
    ELSE value

\* lines 183-195 for one field: None without a match, the cleaned value when
\* it is not empty, and no key at all when it is
ExtractField(text, field, multiline) ==
    LET match == SearchField(text, field, multiline)
        value == clean_field_value(field, RStripSeparators(Strip(match.s)))
    IN  IF match = None THEN None
        ELSE IF value # <<>> THEN Str(value)
        ELSE NoKey

\* an extraction whose $ is the end of the text only
extract_message_details_to_end_of_text(message_text) ==
    [field \in FieldNames |-> ExtractField(message_text, field, FALSE)]

\* extract_message_details: flags re.IGNORECASE | re.MULTILINE | re.DOTALL
extract_message_details(message_text) ==
    [field \in FieldNames |-> ExtractField(message_text, field, TRUE)]

\* order_ref_pattern of is_order_message (lines 17-22) found somewhere
is_order_message_of(message_text) ==
    \E pos \in 1..Len(message_text) :
        \/ LabelEnd(message_text, pos, LabelWords["order_ref"]) # 0
        \/ LabelEnd(message_text, pos, OrderNo) # 0

\* message_text.split('\n')
RECURSIVE SplitLines(_, _)
SplitLines(text, cur) ==
    IF text = <<>> THEN <<cur>>
    ELSE IF Head(text) = "\n" THEN <<cur>> \o SplitLines(Tail(text), <<>>)
    ELSE SplitLines(Tail(text), Append(cur, Head(text)))

\* re.match(rf'\[?{label}:?\]?', line) for some entry of field_labels (lines
\* 49-65); in the first entry the alternative Order\s*No\. stands outside \[?
LineStartsField(line) ==
    \/ \E label \in {LabelWords[f] : f \in DOMAIN LabelWords} \cup {BankSwift} :
          \/ LabelEnd(line, 1, label) # 0
          \/ line # <<>> /\ line[1] = "[" /\ LabelEnd(line, 2, label) # 0
    \/ LabelEnd(line, 1, OrderNo) # 0

\* the loop over the lines (lines 67-101): TRUE when no line is at fault
RECURSIVE LinesAccepted(_, _)
LinesAccepted(lines, in_field) ==
    IF lines = <<>> THEN TRUE
    ELSE LET line == Strip(Head(lines))
         IN  IF line = <<>> THEN LinesAccepted(Tail(lines), in_field)
             ELSE IF LineStartsField(line)
             THEN ":" \in Range(line) /\ LinesAccepted(Tail(lines), TRUE)
             ELSE in_field /\ LinesAccepted(Tail(lines), in_field)

\* is_valid_order_format(message_text)[0] on the characters of the text
is_valid_order_format_of(message_text) ==
    /\ is_order_message_of(message_text)
    /\ \A field \in {"currency", "amount", "payout_company"} :
          \E pos \in 1..Len(message_text) :
              LabelEnd(message_text, pos, LabelWords[field]) # 0
    /\ LinesAccepted(SplitLines(Strip(message_text), <<>>), FALSE)

\* the messages extract_message_details is applied to: an order-reference
\* line under each label form with a reference or none, the currency, an
\* amount line with a number, with letters or with nothing, the payout
\* company, and optionally an address of one or two lines and a bank name
OrderRefForms ==
    {<<"O", "r", "d", "e", "r", " ", "R", "e", "f">>,
     <<"O", "r", "d", "e", "r", " ", "R", "e", "f", "e", "r", "e", "n", "c", "e">>,
     <<"O", "r", "d", "e", "r", " ", "R", "e", "f", " ", "N", "o", ".">>,
     <<"O", "r", "d", "e", "r", " ", "N", "o", ".">>}

ExtractTexts ==
    {form \o ref \o <<"\n", "C", "u", "r", "r", "e", "n", "c", "y", ":", " ", "U", "S", "D", "\n", "A", "m", "o", "u", "n", "t", ":">> \o amount \o <<"\n", "P", "a", "y", " ", "O", "u", "t", " ", "C", "o", "m", "p", "a", "n", "y", ":", " ", "C", "e", "l", "e", "s">> \o address \o bank :
        form \in OrderRefForms,
        ref \in {<<":", " ", "A", "1">>, <<":">>},
        amount \in {<<" ", "1", "0", "0">>, <<" ", "U", "S", "D">>, <<>>},
        address \in {<<>>, <<"\n", "B", "e", "n", "e", "f", "i", "c", "i", "a", "r", "y", " ", "a", "d", "d", "r", "e", "s", "s", ":", " ", "1", " ", "M", "a", "i", "n", " ", "S", "t">>,
                     <<"\n", "B", "e", "n", "e", "f", "i", "c", "i", "a", "r", "y", " ", "a", "d", "d", "r", "e", "s", "s", ":", " ", "1", " ", "M", "a", "i", "n", " ", "S", "t", "\n", "S", "p", "r", "i", "n", "g", "f", "i", "e", "l", "d">>},
        bank \in {<<>>, <<"\n", "B", "a", "n", "k", " ", "N", "a", "m", "e", ":", " ", "P", "a", "r", "a", "m", "o", "u", "n", "t">>}}

InitExtract ==
    /\ NoRun
    /\ processors = NoProcessors
    /\ database = NoDatabase
    /\ \E text \in ExtractTexts : call = Pending("extract_message_details", text)

\* extract_message_details(message_text), as process_order calls it at line 102
ExtractDetails ==
    /\ call.fn = "extract_message_details"
    /\ call.state = "pending"
    /\ call' = [call EXCEPT !.state = "returned",
                            !.out = extract_message_details(call.arg),
                            !.valid = is_valid_order_format_of(call.arg)]
    /\ UNCHANGED <<run, processors, database>>

SpecExtract == InitExtract /\ [][ExtractDetails]_vars

(***************************************************************************)
(* What the extractor returns                                              *)
(***************************************************************************)

Extracted == call.fn = "extract_message_details" /\ call.state = "returned"

\* C24: extract_message_details returns a map with all fifteen field names,
\* each a non-empty cleaned value or None, and _validate_required_fields
\* never raises on it but reports each absent mandatory field as a failed
\* entry.
C24_ExtractorTotal ==
    Extracted =>
        /\ \A field \in FieldNames : call.out[field] = None \/ Truthy(call.out[field])
        /\ ~RequiredFieldsRaise(call.out)
        /\ \A i \in DOMAIN required_fields :
              ~Truthy(Get(call.out, required_fields[i][2])) =>
                  \E k \in DOMAIN RequiredFieldEntries(call.out) :
                      RequiredFieldEntries(call.out)[k] = MsgMissing(required_fields[i][1])

\* a message that format validation accepts, whose amount line has no
\* number: the map has no amount key and _validate_required_fields raises
C24_AmountKeyLeftOut ==
    /\ Extracted
    /\ call.valid
    /\ call.out["amount"] = NoKey
    /\ call.out["order_ref"] = Str(<<"A", "1">>)
    /\ RequiredFieldsRaise(call.out)

\* C25: in a message that format validation accepts, the value extracted
\* for each label is everything after the label up to the next recognized
\* label or the end of the text, the continuation lines included.
C25_ValueRunsToNextLabel ==
    (Extracted /\ call.valid) =>
        \A field \in FieldNames :
            call.out[field] = extract_message_details_to_end_of_text(call.arg)[field]

\* the address was written over two lines and only the first was extracted
C25_SecondAddressLineDropped ==
    /\ Extracted
    /\ call.valid
    /\ call.out["beneficiary_address"] = Str(<<"1", " ", "M", "a", "i", "n", " ", "S", "t">>)
    /\ extract_message_details_to_end_of_text(call.arg)["beneficiary_address"] =
           Str(<<"1", " ", "M", "a", "i", "n", " ", "S", "t", "\n",
                 "S", "p", "r", "i", "n", "g", "f", "i", "e", "l", "d">>)

\* the order reference as written: the first line after its first colon
OrderRefWritten(text) ==
    LET line == SplitLines(text, <<>>)[1]
        colon == CHOOSE k \in DOMAIN line : line[k] = ":" /\ \A j \in 1..(k - 1) : line[j] # ":"
    IN  Strip(SubSeq(line, colon + 1, Len(line)))

\* C29: a message that format validation accepts, under whichever of the
\* order-reference label forms, with a non-empty reference, has order_ref
\* extracted as that reference and gets no entry "Order Reference: Missing".
C29_EveryLabelFormExtracted ==
    (Extracted /\ call.valid /\ OrderRefWritten(call.arg) # <<>>) =>
        /\ call.out["order_ref"] = Str(OrderRefWritten(call.arg))
        /\ \A k \in DOMAIN MissingEntries(call.out, required_fields) :
              MissingEntries(call.out, required_fields)[k] # MsgMissing("Order Reference")

\* the label Order No. passes format validation and order_ref is None
C29_OrderNoNotExtracted ==
    /\ Extracted
    /\ call.valid
    /\ WordAt(call.arg, 1, <<"O", "R", "D", "E", "R", " ", "N", "O", ".">>)
    /\ OrderRefWritten(call.arg) = <<"A", "1">>
    /\ call.out["order_ref"] = None
    /\ call.out["amount"] = Str(<<"1", "0", "0">>)
    /\ \E k \in DOMAIN RequiredFieldEntries(call.out) :
          RequiredFieldEntries(call.out)[k] = MsgMissing("Order Reference")

(***************************************************************************)
(* forwarder/utils/sanctions_service.py: the query of the screening        *)
(* service and the verdict, for a beneficiary and an answer                *)
(***************************************************************************)

\* extract_core_name.removable_terms as whole words; the two patterns with a
\* dot need one in the name, and the last two, written without a comma
\* between them, make one pattern that no name matches
removable_terms ==
    {<<"C", "O", "R", "P", "O", "R", "A", "T", "I", "O", "N">>, <<"C", "O", "R", "P">>,
     <<"I", "N", "C">>, <<"L", "L", "C">>, <<"L", "T", "D">>,
     <<"L", "I", "M", "I", "T", "E", "D">>, <<"P", "T", "E">>, <<"P", "V", "T">>,
     <<"G", "M", "B", "H">>, <<"I", "M", "P", "O", "R", "T">>,
     <<"E", "X", "P", "O", "R", "T">>, <<"C", "O", "M", "P", "A", "N", "Y">>,
     <<"F", "O", "R", "E", "I", "G", "N">>,
     <<"T", "E", "C", "H", "N", "O", "L", "O", "G", "Y">>, <<"T", "R", "A", "D", "E">>,
     <<"T", "R", "A", "D", "I", "N", "G">>, <<"G", "R", "O", "U", "P">>,
     <<"H", "O", "L", "D", "I", "N", "G">>, <<"H", "O", "L", "D", "I", "N", "G", "S">>,
     <<"I", "N", "D", "U", "S", "T", "R", "I", "E">>,
     <<"I", "N", "D", "U", "S", "T", "R", "I", "E", "S">>,
     <<"I", "N", "T", "E", "R", "N", "A", "T", "I", "O", "N", "A", "L">>,
     <<"E", "N", "T", "E", "R", "P", "R", "I", "S", "E">>,
     <<"E", "N", "T", "E", "R", "P", "R", "I", "S", "E", "S">>,
     <<"S", "I", "R", "K", "E", "T">>, <<"S", "I", "R", "K", "E", "T", "I">>,
     <<"M", "A", "N", "U", "F", "A", "C", "T", "U", "R", "I", "N", "G">>,
     <<"P", "R", "O", "D", "U", "C", "T">>, <<"P", "R", "O", "D", "U", "C", "T", "S">>,
     <<"S", "O", "L", "U", "T", "I", "O", "N">>,
     <<"S", "O", "L", "U", "T", "I", "O", "N", "S">>, <<"S", "E", "R", "V", "I", "C", "E">>,
     <<"S", "E", "R", "V", "I", "C", "E", "S">>}

\* company_name.replace("&", "and")
RECURSIVE ReplaceAmpersand(_)
ReplaceAmpersand(s) ==
    IF s = <<>> THEN <<>>
    ELSE (IF Head(s) = "&" THEN <<"a", "n", "d">> ELSE <<Head(s)>>)
             \o ReplaceAmpersand(Tail(s))

\* extract_core_name on a name of words of letters and digits: the terms
\* removed, the spaces left behind collapsed and stripped
extract_core_name(company_name) ==
    JoinWords(SelectSeq(SplitWords(ReplaceAmpersand(company_name), <<>>, <<>>),
                        LAMBDA word : Upper(word) \notin removable_terms))

\* urllib.parse.quote_plus on letters, digits and spaces
quote_plus(s) == Replace(s, " ", "+")

\* check_entity lines 89-96: the parameters of the query, those with an
\* empty value left out
check_entity_query(beneficiary_name, beneficiary_address) ==
    LET names == quote_plus(extract_core_name(beneficiary_name))
        address == IF beneficiary_address # <<>> THEN quote_plus(beneficiary_address)
                   ELSE <<>>
    IN  [names |-> IF names # <<>> THEN Str(names) ELSE NoKey,
         address |-> IF address # <<>> THEN Str(address) ELSE NoKey]

\* no request goes out
NoQuery == [names |-> NoKey, address |-> NoKey]

\* validate_entity line 175: check_entity is called with the name alone, so
\* beneficiary_address keeps its default ""
validate_entity_query(d) ==
    IF ~SanctionsAsked(d) THEN NoQuery
    ELSE check_entity_query(Get(d, "beneficiary_name").s, <<>>)

\* the beneficiaries screened and their addresses
ScreenedNames ==
    {None, Str(<<"A", "c", "m", "e">>),
     Str(<<"A", "c", "m", "e", " ", "T", "r", "a", "d", "i", "n", "g", " ", "L", "t", "d">>),
     Str(<<"L", "t", "d">>),
     Str(<<"A", "c", "m", "e", " ", "S", "y", "s", "t", "e", "m", "s">>),
     Str(<<"S", "m", "i", "t", "h", " ", "&", " ", "S", "o", "n", "s">>)}

ScreenedAddresses == {None, Str(<<"1", " ", "M", "a", "i", "n", " ", "S", "t">>)}

InitScreening ==
    /\ NoRun
    /\ processors = NoProcessors
    /\ database = NoDatabase
    /\ \E name \in ScreenedNames, address \in ScreenedAddresses, resp \in SanctionsResponses :
          call = Pending("validate_entity",
                         [details |-> [EmptyFieldMap EXCEPT !["beneficiary_name"] = name,
                                                            !["beneficiary_address"] = address],
                          resp |-> resp])

\* sanctions_service.validate_entity(details), as process_order calls it at
\* line 119, for the answer of the screening service
ValidateEntity ==
    /\ call.fn = "validate_entity"
    /\ call.state = "pending"
    /\ call' = [call EXCEPT
                   !.state = "returned",
                   !.out = validate_entity_query(call.arg.details),
                   !.valid = validate_entity(call.arg.details, call.arg.resp).is_valid,
                   !.message = validate_entity(call.arg.details, call.arg.resp).message]
    /\ UNCHANGED <<run, processors, database>>

SpecScreening == InitScreening /\ [][ValidateEntity]_vars

(***************************************************************************)
(* The query and the verdict of the screening                              *)
(***************************************************************************)

Screened == call.fn = "validate_entity" /\ call.state = "returned"

\* C26: the query for an order with a beneficiary address carries the core
\* name and the address, and the address parameter is left out only when
\* the order has no beneficiary address.
C26_QueryCarriesAddress ==
    (Screened /\ SanctionsAsked(call.arg.details)) =>
        LET address == Get(call.arg.details, "beneficiary_address")
            core_name == extract_core_name(call.arg.details["beneficiary_name"].s)
        IN  /\ core_name # <<>> => call.out.names = Str(quote_plus(core_name))
            /\ Truthy(address) => call.out.address = Str(quote_plus(address.s))
            /\ call.out.address = NoKey => ~Truthy(address)

\* an order with the address 1 Main St was screened by name only
C26_AddressNotSent ==
    /\ Screened
    /\ call.arg.details["beneficiary_address"] = Str(<<"1", " ", "M", "a", "i", "n", " ", "S", "t">>)
    /\ call.out.names = Str(<<"A", "c", "m", "e">>)
    /\ call.out.address = NoKey

\* C27: validate_entity answers is_valid = True with the message of a passed
\* check exactly when total_hits is 0, and is_valid = False with the message
\* of a failed check whenever total_hits is above 0, found_records empty or
\* not.
C27_VerdictAndMessageAgree ==
    (Screened /\ SanctionsAsked(call.arg.details) /\ call.arg.resp.kind = "ok") =>
        IF call.arg.resp.total_hits = 0
        THEN call.valid /\ call.message = "SANCTIONS CHECK PASSED"
        ELSE ~call.valid /\ call.message = "SANCTIONS CHECK FAILED"

\* the service reported a hit without a record: the order is refused with
\* the message of a passed check
C27_RefusedWithPassedMessage ==
    /\ Screened
    /\ call.arg.resp.kind = "ok"
    /\ call.arg.resp.total_hits > 0
    /\ call.arg.resp.found_records = <<>>
    /\ ~call.valid
    /\ call.message = "SANCTIONS CHECK PASSED"

(***************************************************************************)
(* The sanctions stage without a sanctions configuration                   *)
(***************************************************************************)

SanctionsEnabled == RuleGet(validation_rules, "check_sanctions", FALSE)

\* C28: with check_sanctions enabled, the sanctions stage of process_order
\* ends by appending exactly one entry to passed or to failed and never
\* raises, with or without a sanctions configuration.
C28_SanctionsStageAppendsOneEntry ==
    [][(pc = "sanctions" /\ SanctionsEnabled) =>
           /\ pc' = "decide"
           /\ warnings' = warnings
           /\ \/ Len(passed') = Len(passed) + 1 /\ failed' = failed
              \/ Len(failed') = Len(failed) + 1 /\ passed' = passed]_vars

\* check_sanctions is enabled, no SanctionsService was built, and
\* process_order raised at the sanctions stage, after the bank details
C28_RaisedWithoutService ==
    /\ pc = "raised"
    /\ SanctionsEnabled
    /\ ~sanctions_service
    /\ message.format = "ok"
    /\ ~RequiredFieldsRaise(details)
    /\ swift_answer # Unasked
    /\ sanctions_answer = Unasked

====
